---- MODULE Spec2Model ----
(***************************************************************************)
(* Worker pool and transports of the Claude agent SDK                      *)
(* (crates/claude-agent-sdk/src/internal).                                 *)
(*                                                                         *)
(* pool.rs: the pool is a counting semaphore of max_size permits (tokio    *)
(* Semaphore, fair: permits are handed out in request order) plus a        *)
(* bounded return channel of capacity max_size (tokio mpsc) that holds the *)
(* idle workers.  Clients call acquire(), use the guard (write /           *)
(* read_line) and drop it.  One task may call initialize().  Worker        *)
(* processes may exit on their own at any time.  Time is counted in        *)
(* seconds and advances by Tick.  (Spec, FairSpec)                         *)
(*                                                                         *)
(* pool.rs, transport/pooled.rs: the static POOL with init / get /         *)
(* shutdown, the pools behind Arcs, and PooledTransports that own one Arc  *)
(* and at most one guard each.  (GlobalSpec)                               *)
(*                                                                         *)
(* transport/subprocess.rs, transport/pooled.rs: one SubprocessTransport   *)
(* and one PooledTransport that receive the same calls of the Transport    *)
(* trait (TransportSpec), and the SubprocessTransport on its own           *)
(* (SubprocessSpec); the stream of read_messages with its dynamic buffer   *)
(* (ReadSpec), the peak size the readers share (PeakSpec) and the steps of *)
(* write() and end_input() on the shared stdin (WriteSpec).                *)
(*                                                                         *)
(* pool.rs: the pool when initialize() runs before the first acquire()     *)
(* and min_size <= max_size (InitFirstSpec).                               *)
(*                                                                         *)
(* transport/pooled.rs, pool.rs: PooledTransports that take their workers  *)
(* from one pool, one session after the other, and the lines the workers   *)
(* answer with (SessionSpec).                                              *)
(*                                                                         *)
(* message_parser.rs: one input line given to parse_with_mode in both      *)
(* parsing modes and to MessageKind::detect (ParseSpec).                   *)
(*                                                                         *)
(* errors.rs: one ClaudeError and its accessors (ErrorSpec).               *)
(*                                                                         *)
(* skills/performance.rs, skills/tags.rs: an IndexedSkillCollection under  *)
(* add and query (CollectionSpec) and an LruCache under put and get        *)
(* (LruSpec).                                                              *)
(***************************************************************************)
EXTENDS Naturals, Sequences, FiniteSets

\* ---------------------------------------------------------------- bounds
NumClients == 2          \* concurrent callers of acquire()
MaxMinSize == 2          \* PoolConfig.min_size ranges over 0..MaxMinSize
MaxMaxSize == 2          \* PoolConfig.max_size ranges over 1..MaxMaxSize
MaxGlobalMinSize == 1    \* min_size of the pools given to init_global_pool
MaxWorkers == 2          \* cap on next_worker_id (workers ever numbered)
IdleTimeoutSecs == 30    \* the configured PoolConfig.idle_timeout
TickSecs == 31           \* seconds that pass in one Tick: more than either timeout
MaxPools == 2            \* ConnectionPools ever built next to the global POOL
NumTransports == 2       \* PooledTransports
MaxChildren == 2         \* worker processes ever spawned by those pools
MaxProcs == 2            \* processes ever spawned by the SubprocessTransport
MaxLines == 1            \* lines a process writes to its stdout
MaxSizeSteps == 3        \* byte sizes are 32 KiB times 1..MaxSizeSteps
MaxOutLines == 2         \* lines the process of the read streams writes
NumUpdaters == 2         \* concurrent callers of update_peak
MaxWrites == 2           \* write() calls of the transport, connect's own included
MaxControlChunks == 2    \* pieces the other holder of the shared stdin writes
MaxSessions == 3         \* connects of the pooled transports that share workers
MaxWorkerLines == 2      \* requests and lines a pooled worker has pending at once
MaxMembers == 2          \* members of the top-level object of an input line
MaxSkills == 2           \* skills added to the IndexedSkillCollection
MaxCapacity == 2         \* LruCache::new(capacity) ranges over 0..MaxCapacity

\* ------------------------------------------------------ program constants
ACQUIRE_TIMEOUT_SECS == 30
DEFAULT_INITIAL_SIZE == 64    \* KiB: DynamicBufferConfig::default().initial_size
QUERY_CACHE_CAPACITY == 100   \* IndexedSkillCollection::new: LruCache::new(100)

Clients == 1..NumClients
WorkerIds == 1..MaxWorkers
NoWorker == 0

Min(a, b) == IF a < b THEN a ELSE b

Range(q) == {q[i] : i \in DOMAIN q}

PoolIds == 1..MaxPools
NoPool == 0
Transports == 1..NumTransports
ChildIds == 1..MaxChildren
NoChild == 0
ProcIds == 1..MaxProcs
NoProc == 0

VARIABLES
    options,         \* ClaudeAgentOptions of the pool: cli_path
    config,          \* PoolConfig: min_size, max_size, idle_timeout
    return_chan,     \* return_tx / return_rx: the idle workers, oldest first
    permits,         \* semaphore: available permits
    waitq,           \* semaphore: acquire_owned() futures waiting, in order
    next_worker_id,  \* ConnectionPool.next_worker_id
    state,           \* PoolState: total_created, active_count
    workers,         \* every PooledWorker: its process and seconds since last_activity
    initpc,          \* initialize(): "new", "running", "done" (Ok), "failed" (Err)
    init_i,          \* initialize(): iterations of its loop completed
    pc,              \* per client: position inside acquire() / holding a guard
    guard,           \* per client: WorkerGuard.worker (NoWorker when no guard)
    result,          \* per client: the Err its last acquire() returned, or "none"
    waited           \* per client: seconds its pending acquire_owned() has waited

\* The global pool and the pooled transports
\* (pool.rs, POOL and its three functions; transport/pooled.rs).
VARIABLES
    POOL,            \* the static POOL: NoPool (None) or the pool it refers to
    pools,           \* every ConnectionPool ever built: config and idle workers
    transports,      \* every PooledTransport: pool, guard, ready
    children,        \* the process of every worker of those pools
    pres             \* per PooledTransport: the result of its last call

\* The subprocess transport (transport/subprocess.rs).
VARIABLES
    st,              \* the SubprocessTransport: its fields
    procs,           \* every process it spawned: status, exit code, unread lines
    sres             \* the result of its last call

\* The read streams of one connected SubprocessTransport
\* (transport/subprocess.rs, read_messages, read_raw_messages, the metrics).
VARIABLES
    buffer_config,   \* SubprocessTransport.buffer_config
    buffer_metrics,  \* SubprocessTransport.buffer_metrics: the four counters
    out,             \* the lines the process has written to its stdout, in order
    part,            \* the first bytes of a further line: "none", "taken", "lost"
    eof,             \* the process has closed its stdout
    rpos,            \* lines of out that read_line has taken from stdout
    stream,          \* the stream that borrows the transport, if any
    yielded,         \* the items that stream has yielded, in order
    conn,            \* process, ready and stdin of the transport
    due              \* accepted lines that were longer than the capacity

\* Concurrent callers of AtomicBufferMetrics::update_peak
\* (transport/subprocess.rs, AtomicBufferMetrics).
VARIABLES
    peak_size,       \* AtomicBufferMetrics.peak_size
    upd,             \* per caller: position in update_peak, size, current
    largest,         \* the largest size passed to update_peak so far
    was_reset        \* reset() has been called

\* The write side of one SubprocessTransport, call by call and await by await
\* (transport/subprocess.rs, connect, write, end_input, take_stdin_arc).
VARIABLES
    wt,              \* the transport: prompt, stdin, stdin_arc, ready
    stdin_pipe,      \* what the process has received on its stdin, in order
    lock,            \* the Mutex of the shared stdin: "free" or its holder
    call,            \* the call of the transport that is under way
    wres,            \* the result of its last call
    ctl,             \* the other holder of the shared stdin
    wn               \* write() calls started so far

\* Pooled transports that share one pool, and what their workers read and
\* write (transport/pooled.rs, pool.rs: PooledWorker::write / read_line).
VARIABLES
    pt,              \* per PooledTransport: guard, ready, number of its session
    idle_workers,    \* the return channel of the pool they share
    wk,              \* per worker: requests not yet answered, lines in its stdout
    delivered,       \* <<session that read a line, session whose write caused it>>
    nsess            \* sessions (successful connects) so far

\* One line given to the message parser (internal/message_parser.rs).
VARIABLES
    line,            \* the input line, as its sequence of JSON tokens
    parsed,          \* per ParsingMode: what parse_with_mode returned, if called
    detected         \* what MessageKind::detect returned, if called

\* One ClaudeError and what its accessors returned (errors.rs).
VARIABLES
    err,             \* the variant of the error
    answers          \* per accessor: <<>> before its call, then <<what it returned>>

\* One IndexedSkillCollection (skills/performance.rs).
VARIABLES
    skills,          \* Vec<SkillPackage>: name and tags of each skill
    by_name,         \* name -> index
    by_tag,          \* tag -> indices
    query_cache,     \* LruCache<String, Vec<usize>>
    found            \* the last query: its filter and the indices it returned

\* One LruCache (skills/performance.rs).
VARIABLES
    cache,           \* capacity, map, access_order
    recent,          \* the keys put or found so far, the latest use of each last
    lop,             \* the last call: put or get, its key, what held before it
    evicted          \* the keys the last call removed from the map

poolvars == <<options, config, return_chan, permits, waitq, next_worker_id, state,
              workers, initpc, init_i, pc, guard, result, waited>>
gvars == <<POOL, pools, transports, children, pres>>
svars == <<st, procs, sres>>
rvars == <<buffer_config, buffer_metrics, out, part, eof, rpos, stream, yielded,
           conn, due>>
kvars == <<peak_size, upd, largest, was_reset>>
wvars == <<wt, stdin_pipe, lock, call, wres, ctl, wn>>
pwvars == <<pt, idle_workers, wk, delivered, nsess>>
mpvars == <<line, parsed, detected>>
evars == <<err, answers>>
cvars == <<skills, by_name, by_tag, query_cache, found>>
lvars == <<cache, recent, lop, evicted>>
latevars == <<evars, cvars, lvars>>
xvars == <<pwvars, mpvars, latevars>>
iovars == <<rvars, kvars, wvars, xvars>>

vars == <<poolvars, gvars, svars, iovars>>

\* A ConnectionPool that was never built, and one that has been dropped.
AbsentPool == [status |-> "absent", enabled |-> FALSE, max_size |-> 1,
               return_chan |-> <<>>]
DroppedPool == [status |-> "dropped", enabled |-> FALSE, max_size |-> 1,
                return_chan |-> <<>>]

\* A PooledTransport that was never built, and one that has been dropped.
AbsentTransport == [status |-> "absent", pool |-> NoPool, guard |-> NoChild,
                    ready |-> FALSE]
DroppedTransport == [status |-> "dropped", pool |-> NoPool, guard |-> NoChild,
                     ready |-> FALSE]

\* No global pool, no pool, no pooled transport.
GlobalInit ==
    /\ POOL = NoPool
    /\ pools = [i \in PoolIds |-> AbsentPool]
    /\ transports = [t \in Transports |-> AbsentTransport]
    /\ children = [c \in ChildIds |-> "absent"]
    /\ pres = [t \in Transports |-> "none"]

\* The fields SubprocessTransport::new sets, before a prompt is chosen.
BuiltTransport == [status |-> "built", prompt |-> "Streaming", stdin |-> NoProc,
                   stdin_arc |-> [some |-> FALSE, stdin |-> NoProc],
                   stdout |-> NoProc, process |-> NoProc, ready |-> FALSE]

AbsentProc == [status |-> "absent", code |-> 0, lines |-> 0, waited |-> FALSE]

\* No subprocess transport yet.
SubprocessInit ==
    /\ st = [BuiltTransport EXCEPT !.status = "absent"]
    /\ procs = [p \in ProcIds |-> AbsentProc]
    /\ sres = [op |-> "none", kind |-> "Ok", code |-> 0]

\* Byte sizes, in KiB.
Sizes == {32 * k : k \in 1..MaxSizeSteps}

\* growth_factor (an f64) as numerator and denominator: 2.0.
GrowthFactors == {<<2, 1>>}

\* Every DynamicBufferConfig: its fields are set freely by the caller.
BufferConfigs == [initial_size : Sizes, max_message_size : Sizes,
                  growth_factor : GrowthFactors, enable_metrics : BOOLEAN]

\* DynamicBufferConfig::default(): 64 KiB of initial size; the other fields
\* are whatever the default gives.
DefaultBufferConfigs == {c \in BufferConfigs : c.initial_size = DEFAULT_INITIAL_SIZE}

\* ClaudeAgentOptions as far as the buffer goes: buffer_config and
\* max_buffer_size, each None (some = FALSE) or Some(value).
BufferOptions == [buffer_config : [some : BOOLEAN, value : BufferConfigs],
                  max_buffer_size : [some : BOOLEAN, value : Sizes]]

\* SubprocessTransport::new, "Resolve buffer configuration": the
\* configurations it may store for the options o.
ResolveBufferConfig(o) ==
    IF o.buffer_config.some THEN {o.buffer_config.value}
    ELSE IF o.max_buffer_size.some
    THEN {[d EXCEPT !.max_message_size = o.max_buffer_size.value] :
             d \in DefaultBufferConfigs}
    ELSE DefaultBufferConfigs

\* AtomicBufferMetrics::new: all counters zero.
NewMetrics == [peak_size |-> 0, message_count |-> 0, total_bytes |-> 0,
               resize_count |-> 0]

NoStream == [status |-> "none", raw |-> FALSE, current_capacity |-> 0, first |-> 0]

\* A transport connected with a streaming prompt: process running, ready,
\* stdin open.
Connected == [process |-> "running", waited |-> FALSE, ready |-> TRUE,
              stdin |-> "open"]

\* The read streams before the first stream, for some options.
ReaderInit ==
    /\ \E o \in BufferOptions : buffer_config \in ResolveBufferConfig(o)
    /\ buffer_metrics = NewMetrics
    /\ out = <<>>
    /\ part = "none"
    /\ eof = FALSE
    /\ rpos = 0
    /\ stream = NoStream
    /\ yielded = <<>>
    /\ conn = Connected
    /\ due = 0

\* Read streams nobody uses.
ReaderUnused ==
    /\ buffer_config = [initial_size |-> DEFAULT_INITIAL_SIZE,
                        max_message_size |-> DEFAULT_INITIAL_SIZE,
                        growth_factor |-> <<2, 1>>, enable_metrics |-> FALSE]
    /\ buffer_metrics = NewMetrics
    /\ out = <<>>
    /\ part = "none"
    /\ eof = FALSE
    /\ rpos = 0
    /\ stream = NoStream
    /\ yielded = <<>>
    /\ conn = Connected
    /\ due = 0

Updaters == 1..NumUpdaters

IdleUpdater == [pc |-> "idle", size |-> 0, current |-> 0]

\* AtomicBufferMetrics::new: peak_size is 0; nobody is inside update_peak.
PeakInit ==
    /\ peak_size = 0
    /\ upd = [u \in Updaters |-> IdleUpdater]
    /\ largest = 0
    /\ was_reset = FALSE

\* QueryPrompt::Text, ::Content, ::Streaming
QueryPrompts == {"Text", "Content", "Streaming"}

\* stdin is None ("none") or Some ("open"); stdin_arc is None ("none"),
\* Some(cell holding the stdin) ("open") or Some(cell holding None) ("empty").
NewWriter(prompt) == [prompt |-> prompt, stdin |-> "none", stdin_arc |-> "none",
                      process |-> "none", ready |-> FALSE]

\* No call of the transport is under way.
NoCall == [op |-> "none", pc |-> "none", n |-> 0, via |-> "none"]

\* SubprocessTransport::new for some prompt; nothing called yet.
WriterInit ==
    /\ wt \in {NewWriter(prompt) : prompt \in QueryPrompts}
    /\ stdin_pipe = <<>>
    /\ lock = "free"
    /\ call = NoCall
    /\ wres = [op |-> "none", kind |-> "Ok"]
    /\ ctl = [pc |-> "idle", sent |-> 0]
    /\ wn = 0

WriterUnused == WriterInit /\ wt.prompt = "Streaming"

\* PooledTransport::from_pool for each transport, over a pool without workers.
SessionsInit ==
    /\ pt = [t \in Transports |-> [guard |-> NoChild, ready |-> FALSE, session |-> 0]]
    /\ idle_workers = <<>>
    /\ wk = [c \in ChildIds |-> [status |-> "absent", pending |-> <<>>, stdout |-> <<>>]]
    /\ delivered = {}
    /\ nsess = 0

ParsingModes == {"Traditional", "ZeroCopy"}

NotCalled == [ok |-> FALSE, msg |-> "not called"]

\* No line has been given to the parser.
ParserUnused ==
    /\ line = <<>>
    /\ parsed = [m \in ParsingModes |-> NotCalled]
    /\ detected = "not called"

Accessors == {"category", "error_code", "is_retryable", "http_status",
              "to_error_context"}

\* No accessor of the error has been called.
ErrorsUnused ==
    /\ err = "Connection"
    /\ answers = [a \in Accessors |-> <<>>]

EmptyMap == [k \in {} |-> 0]

\* LruCache::new
LruCache_new(capacity) ==
    [capacity |-> capacity, map |-> EmptyMap, access_order |-> <<>>]

NoQuery == [filter |-> <<>>, indices |-> <<>>, asked |-> FALSE]

\* IndexedSkillCollection::new
CollectionInit ==
    /\ skills = <<>>
    /\ by_name = EmptyMap
    /\ by_tag = EmptyMap
    /\ query_cache = LruCache_new(QUERY_CACHE_CAPACITY)
    /\ found = NoQuery

NoLruCall == [op |-> "none", key |-> "", present |-> FALSE, full |-> FALSE, lru |-> <<>>]

\* An LruCache of capacity 0 that was never used.
LruUnused ==
    /\ cache = LruCache_new(0)
    /\ recent = <<>>
    /\ lop = NoLruCall
    /\ evicted = {}

LateUnused == ErrorsUnused /\ CollectionInit /\ LruUnused

XUnused == SessionsInit /\ ParserUnused /\ LateUnused

IoUnused == ReaderUnused /\ PeakInit /\ WriterUnused /\ XUnused

\* ------------------------------------------------------------ PooledWorker

\* A worker slot that was never spawned.
AbsentWorker == [process |-> "absent", idle_secs |-> 0]

\* PooledWorker::new: process spawned, last_activity = now, healthy = true.
NewWorker == [process |-> "running", idle_secs |-> 0]

\* The healthy field is set to true by PooledWorker::new and never assigned again.
HealthyFlag(w) == TRUE

\* tokio Child::id(): Some(pid) until the child has been awaited (wait/try_wait);
\* pool.rs never awaits a child, so a worker object always reports Some, whether
\* its process still runs or has already exited.
ProcessIdIsSome(w) == workers[w].process \in {"running", "exited"}

is_healthy(w) == HealthyFlag(w) /\ ProcessIdIsSome(w)

is_idle_timeout_never(w, timeout_dur) == FALSE

is_idle_timeout(w, timeout_dur) == workers[w].idle_secs > timeout_dur

\* touch(): last_activity = now.
touch(ws, w) == [ws EXCEPT ![w].idle_secs = 0]

\* impl Drop for PooledWorker: process.id() is Some, so start_kill() is called
\* and the worker object is gone.
DropWorker(ws, w) == [ws EXCEPT ![w] = [process |-> "killed", idle_secs |-> 0]]

\* ---------------------------------------------------------- ConnectionPool

SemaphoreNew_extra(cfg) == cfg.max_size + 1

\* Semaphore::new(config.max_size)
SemaphoreNew(cfg) == cfg.max_size

\* mpsc::channel(config.max_size)
ChannelCapacity == config.max_size

\* return_tx.try_send(worker) succeeds iff the channel has room.
try_send_ok(ch) == Len(ch) < ChannelCapacity

try_recv_peek(ch) == ch

\* What rx.try_recv() leaves in the channel after taking its oldest worker.
try_recv_rest(ch) == Tail(ch)

Configs == [min_size : 0..MaxMinSize, max_size : 1..MaxMaxSize,
            idle_timeout : {IdleTimeoutSecs}]

\* ClaudeAgentOptions.cli_path: None or Some(path).
Options == [cli_path : {"none", "some"}]

\* PooledWorker::spawn_process: without a cli_path it returns the Connection
\* error before anything is spawned; with one, Command::spawn succeeds or fails
\* with the Process error.  stdin and stdout are requested as Stdio::piped(), so
\* a spawned child always has both and the two ok_or_else errors do not occur.
SpawnOutcomes == IF options.cli_path = "none"
                 THEN {"connection_error"}
                 ELSE {"ok", "process_error"}

\* The ClaudeError variant of each error that acquire() returns.
ErrorKind(e) == CASE e = "timeout"          -> "Connection"
                  [] e = "connection_error" -> "Connection"
                  [] e = "process_error"    -> "Process"

\* ConnectionPool::new
PoolInit ==
    /\ options \in Options
    /\ config \in Configs
    /\ return_chan = <<>>
    /\ permits = SemaphoreNew(config)
    /\ waitq = <<>>
    /\ next_worker_id = 0
    /\ state = [total_created |-> 0, active_count |-> 0]
    /\ workers = [w \in WorkerIds |-> AbsentWorker]
    /\ initpc = "new"
    /\ init_i = 0
    /\ pc = [p \in Clients |-> "idle"]
    /\ guard = [p \in Clients |-> NoWorker]
    /\ result = [p \in Clients |-> "none"]
    /\ waited = [p \in Clients |-> 0]

\* One pool with its clients; no global pool and no transport.
Init == PoolInit /\ GlobalInit /\ SubprocessInit /\ IoUnused

\* A pool nobody uses.
PoolUnused ==
    /\ PoolInit
    /\ options.cli_path = "some"
    /\ config = [min_size |-> 0, max_size |-> 1, idle_timeout |-> IdleTimeoutSecs]

\* create_worker on success: the counters of PoolState.
StateAfterCreate == [total_created |-> state.total_created + 1,
                     active_count |-> state.active_count + 1]

\* initialize(): one iteration of `for _ in 0..min_size`, or the final Ok(()).
\* create_worker takes the next id and spawns; on Err the `?` returns it, on Ok
\* the worker is offered to the channel and destroyed when the channel is full.
Initialize ==
    /\ initpc \in {"new", "running"}
    /\ UNCHANGED <<svars, gvars, iovars, options, config, permits, waitq, pc, guard, result, waited>>
    /\ IF init_i >= config.min_size
       THEN /\ initpc' = "done"
            /\ UNCHANGED <<return_chan, next_worker_id, state, workers, init_i>>
       ELSE /\ next_worker_id < MaxWorkers
            /\ next_worker_id' = next_worker_id + 1
            /\ \E outcome \in SpawnOutcomes :
                 IF outcome = "ok"
                 THEN /\ state' = StateAfterCreate
                      /\ init_i' = init_i + 1
                      /\ initpc' = "running"
                      /\ IF try_send_ok(return_chan)
                         THEN /\ return_chan' = Append(return_chan, next_worker_id')
                              /\ workers' = [workers EXCEPT ![next_worker_id'] = NewWorker]
                         ELSE /\ return_chan' = return_chan
                              /\ workers' = DropWorker(
                                     [workers EXCEPT ![next_worker_id'] = NewWorker],
                                     next_worker_id')
                 ELSE /\ initpc' = "failed"
                      /\ UNCHANGED <<return_chan, state, workers, init_i>>

\* acquire(): acquire_owned() is polled for the first time.  A permit is taken
\* at once when one is free and nobody queues for it; otherwise the future
\* joins the semaphore's queue and the 30 s timer starts.
AcquireStart(p) ==
    /\ pc[p] = "idle"
    /\ result' = [result EXCEPT ![p] = "none"]
    /\ waited' = [waited EXCEPT ![p] = 0]
    /\ IF permits > 0 /\ waitq = <<>>
       THEN /\ permits' = permits - 1
            /\ pc' = [pc EXCEPT ![p] = "permit"]
            /\ waitq' = waitq
       ELSE /\ waitq' = Append(waitq, p)
            /\ pc' = [pc EXCEPT ![p] = "waiting"]
            /\ permits' = permits
    /\ UNCHANGED <<svars, gvars, iovars, options, config, return_chan, next_worker_id, state, workers, initpc,
                   init_i, guard>>

\* A released permit goes to the longest-waiting acquire_owned().
WakeWaiter(p) ==
    /\ pc[p] = "waiting"
    /\ waitq # <<>> /\ Head(waitq) = p
    /\ permits > 0
    /\ permits' = permits - 1
    /\ waitq' = Tail(waitq)
    /\ pc' = [pc EXCEPT ![p] = "permit"]
    /\ waited' = [waited EXCEPT ![p] = 0]
    /\ UNCHANGED <<svars, gvars, iovars, options, config, return_chan, next_worker_id, state, workers, initpc,
                   init_i, guard, result>>

\* The waiters left in the queue when p's acquire future is dropped.
SemCancel(q, p) == SelectSeq(q, LAMBDA x : x # p)

AcquireTimeout_never(p) == FALSE

AcquireTimeout_stuck(p) ==
    /\ pc[p] = "waiting"
    /\ waited[p] >= ACQUIRE_TIMEOUT_SECS
    /\ ~(permits > 0 /\ Head(waitq) = p)
    /\ pc' = [pc EXCEPT ![p] = "idle"]
    /\ result' = [result EXCEPT ![p] = "timeout"]
    /\ waited' = [waited EXCEPT ![p] = 0]
    /\ UNCHANGED <<svars, gvars, iovars, options, config, return_chan, permits, waitq, next_worker_id, state,
                   workers, initpc, init_i, guard>>

\* timeout(30 s, acquire_owned()) elapses: tokio polls the inner future first,
\* so the timeout wins only while no permit is there for p.  The future is
\* dropped (it leaves the queue) and acquire returns the Connection error.
AcquireTimeout(p) ==
    /\ pc[p] = "waiting"
    /\ waited[p] >= ACQUIRE_TIMEOUT_SECS
    /\ ~(permits > 0 /\ Head(waitq) = p)
    /\ waitq' = SemCancel(waitq, p)
    /\ pc' = [pc EXCEPT ![p] = "idle"]
    /\ result' = [result EXCEPT ![p] = "timeout"]
    /\ waited' = [waited EXCEPT ![p] = 0]
    /\ UNCHANGED <<svars, gvars, iovars, options, config, return_chan, permits, next_worker_id, state, workers,
                   initpc, init_i, guard>>

\* acquire(): under the return_rx lock, rx.try_recv() and the reuse test.
\* A worker that passes goes straight into the guard; one that fails is
\* dropped at the end of the match arm; an empty channel gives None.
TryRecv(p) ==
    /\ pc[p] = "permit"
    /\ UNCHANGED <<svars, gvars, iovars, options, config, permits, waitq, next_worker_id, state, initpc, init_i,
                   waited>>
    /\ IF return_chan = <<>>
       THEN /\ pc' = [pc EXCEPT ![p] = "create"]
            /\ UNCHANGED <<return_chan, workers, guard, result>>
       ELSE LET w == Head(return_chan) IN
            /\ return_chan' = try_recv_rest(return_chan)
            /\ IF is_healthy(w) /\ ~is_idle_timeout(w, config.idle_timeout)
               THEN /\ guard' = [guard EXCEPT ![p] = w]
                    /\ pc' = [pc EXCEPT ![p] = "holding"]
                    /\ UNCHANGED <<workers, result>>
               ELSE /\ workers' = DropWorker(workers, w)
                    /\ pc' = [pc EXCEPT ![p] = "create"]
                    /\ UNCHANGED <<guard, result>>

CreateWorker_keeps_permit(p) ==
    /\ pc[p] = "create"
    /\ next_worker_id < MaxWorkers
    /\ next_worker_id' = next_worker_id + 1
    /\ UNCHANGED <<svars, gvars, iovars, options, config, return_chan, waitq, initpc, init_i, waited>>
    /\ \E outcome \in SpawnOutcomes :
         IF outcome = "ok"
         THEN /\ workers' = [workers EXCEPT ![next_worker_id'] = NewWorker]
              /\ state' = StateAfterCreate
              /\ guard' = [guard EXCEPT ![p] = next_worker_id']
              /\ pc' = [pc EXCEPT ![p] = "holding"]
              /\ permits' = permits
              /\ result' = result
         ELSE /\ permits' = permits
              /\ pc' = [pc EXCEPT ![p] = "idle"]
              /\ result' = [result EXCEPT ![p] = outcome]
              /\ UNCHANGED <<workers, state, guard>>

\* acquire(): `None => self.create_worker().await?` and the guard built from it.
\* On Err the permit taken by this acquire is dropped with the `?`, and the
\* error of spawn_process is what acquire returns.
CreateWorker(p) ==
    /\ pc[p] = "create"
    /\ next_worker_id < MaxWorkers
    /\ next_worker_id' = next_worker_id + 1
    /\ UNCHANGED <<svars, gvars, iovars, options, config, return_chan, waitq, initpc, init_i, waited>>
    /\ \E outcome \in SpawnOutcomes :
         IF outcome = "ok"
         THEN /\ workers' = [workers EXCEPT ![next_worker_id'] = NewWorker]
              /\ state' = StateAfterCreate
              /\ guard' = [guard EXCEPT ![p] = next_worker_id']
              /\ pc' = [pc EXCEPT ![p] = "holding"]
              /\ permits' = permits
              /\ result' = result
         ELSE /\ permits' = permits + 1
              /\ pc' = [pc EXCEPT ![p] = "idle"]
              /\ result' = [result EXCEPT ![p] = outcome]
              /\ UNCHANGED <<workers, state, guard>>

\* WorkerGuard::write: the worker's write touches it when the write succeeds;
\* writing to a process that has exited fails before touch().
GuardWrite(p) ==
    /\ pc[p] = "holding"
    /\ workers[guard[p]].process = "running"
    /\ workers' = touch(workers, guard[p])
    /\ UNCHANGED <<svars, gvars, iovars, options, config, return_chan, permits, waitq, next_worker_id, state,
                   initpc, init_i, pc, guard, result, waited>>

\* WorkerGuard::read_line: a line or EOF (Ok(0)), then touch().
GuardReadLine(p) ==
    /\ pc[p] = "holding"
    /\ workers' = touch(workers, guard[p])
    /\ UNCHANGED <<svars, gvars, iovars, options, config, return_chan, permits, waitq, next_worker_id, state,
                   initpc, init_i, pc, guard, result, waited>>

GuardDrop_discard(p) ==
    /\ pc[p] = "holding"
    /\ return_chan' = return_chan
    /\ workers' = DropWorker(workers, guard[p])
    /\ permits' = permits + 1
    /\ guard' = [guard EXCEPT ![p] = NoWorker]
    /\ pc' = [pc EXCEPT ![p] = "idle"]
    /\ UNCHANGED <<svars, gvars, iovars, options, config, waitq, next_worker_id, state, initpc, init_i, result,
                   waited>>

GuardDrop_blocking(p) ==
    /\ pc[p] = "holding"
    /\ try_send_ok(return_chan)
    /\ return_chan' = Append(return_chan, guard[p])
    /\ permits' = permits + 1
    /\ guard' = [guard EXCEPT ![p] = NoWorker]
    /\ pc' = [pc EXCEPT ![p] = "idle"]
    /\ UNCHANGED <<svars, gvars, iovars, options, config, waitq, next_worker_id, state, workers, initpc, init_i,
                   result, waited>>

\* impl Drop for WorkerGuard: try_send the worker back (a full channel hands it
\* back inside the error, which is discarded, so the worker is dropped), then
\* the permit field is dropped.
GuardDrop(p) ==
    /\ pc[p] = "holding"
    /\ IF try_send_ok(return_chan)
       THEN /\ return_chan' = Append(return_chan, guard[p])
            /\ workers' = workers
       ELSE /\ return_chan' = return_chan
            /\ workers' = DropWorker(workers, guard[p])
    /\ permits' = permits + 1
    /\ guard' = [guard EXCEPT ![p] = NoWorker]
    /\ pc' = [pc EXCEPT ![p] = "idle"]
    /\ UNCHANGED <<svars, gvars, iovars, options, config, waitq, next_worker_id, state, initpc, init_i, result,
                   waited>>

\* ------------------------------------------------------------ environment

\* A worker's process exits on its own; nothing in the pool awaits it.
ProcessExit(w) ==
    /\ workers[w].process = "running"
    /\ workers' = [workers EXCEPT ![w].process = "exited"]
    /\ UNCHANGED <<svars, gvars, iovars, options, config, return_chan, permits, waitq, next_worker_id, state,
                   initpc, init_i, pc, guard, result, waited>>

\* TickSecs seconds pass: Instant::elapsed() of every worker and every pending
\* timer grows.  Values past the thresholds they are compared with are kept at
\* the first value past them.
Tick ==
    /\ workers' = [w \in WorkerIds |->
                     IF workers[w].process \in {"running", "exited"}
                     THEN [workers[w] EXCEPT !.idle_secs =
                              Min(@ + TickSecs, config.idle_timeout + 1)]
                     ELSE workers[w]]
    /\ waited' = [p \in Clients |->
                     IF pc[p] = "waiting"
                     THEN Min(waited[p] + TickSecs, ACQUIRE_TIMEOUT_SECS)
                     ELSE waited[p]]
    /\ UNCHANGED <<svars, gvars, iovars, options, config, return_chan, permits, waitq, next_worker_id, state,
                   initpc, init_i, pc, guard, result>>

Next ==
    \/ Initialize
    \/ \E p \in Clients : AcquireStart(p)
    \/ \E p \in Clients : WakeWaiter(p)
    \/ \E p \in Clients : AcquireTimeout(p)
    \/ \E p \in Clients : TryRecv(p)
    \/ \E p \in Clients : CreateWorker(p)
    \/ \E p \in Clients : GuardWrite(p)
    \/ \E p \in Clients : GuardReadLine(p)
    \/ \E p \in Clients : GuardDrop(p)
    \/ \E w \in WorkerIds : ProcessExit(w)
    \/ Tick

Spec == Init /\ [][Next]_vars

\* The pool as PooledTransport::new leaves it: created, never pre-filled
\* (min_size = 0, so initialize() has nothing to spawn).
FairInit == Init /\ config.min_size = 0

\* The runtime polls every woken task and every timer fires: time passes, a
\* permit that is there for the first waiter is taken, an elapsed timeout ends
\* the wait.  Nothing obliges a client to drop its guard.
FairSpec ==
    /\ FairInit /\ [][Next]_vars
    /\ WF_vars(Tick)
    /\ \A p \in Clients : WF_vars(WakeWaiter(p)) /\ WF_vars(AcquireTimeout(p))

\* No acquire() has been called yet: every client is idle without a result,
\* and every worker numbered or counted so far is one of initialize().
NoAcquireYet ==
    /\ \A p \in Clients : pc[p] = "idle" /\ result[p] = "none"
    /\ next_worker_id = init_i
    /\ state.total_created = init_i

\* initialize() called before the first acquire() ...
InitializeFirst == NoAcquireYet /\ Initialize

\* ... and acquire() called when initialize() is not under way.
AcquireAfterInitialize(p) == initpc # "running" /\ AcquireStart(p)

\* A pool whose min_size does not exceed its max_size.
InitFirstInit == Init /\ config.min_size <= config.max_size

InitFirstNext ==
    \/ InitializeFirst
    \/ \E p \in Clients : AcquireAfterInitialize(p)
    \/ \E p \in Clients : WakeWaiter(p)
    \/ \E p \in Clients : AcquireTimeout(p)
    \/ \E p \in Clients : TryRecv(p)
    \/ \E p \in Clients : CreateWorker(p)
    \/ \E p \in Clients : GuardWrite(p)
    \/ \E p \in Clients : GuardReadLine(p)
    \/ \E p \in Clients : GuardDrop(p)
    \/ \E w \in WorkerIds : ProcessExit(w)
    \/ Tick

\* The pool used as its callers use it: initialize() at most once and before
\* the first acquire().
InitFirstSpec == InitFirstInit /\ [][InitFirstNext]_vars

\* ------------------------------------- global pool and pooled transports
\* At this level a pool is its config, its return channel and the guards that
\* are out; the age of an idle worker is an input of connect (stale or not).

\* PoolConfig of the pools built here: enabled, min_size, max_size.
GlobalConfigs == [enabled : BOOLEAN, min_size : 0..MaxGlobalMinSize,
                  max_size : 1..MaxMaxSize]

\* ConnectionPool::new: an empty return channel.
NewPool(cfg) == [status |-> "live", enabled |-> cfg.enabled,
                 max_size |-> cfg.max_size, return_chan |-> <<>>]

\* Ids are given out in order and never reused.
NextPoolId == Cardinality({i \in PoolIds : pools[i].status # "absent"}) + 1
NextChildId == Cardinality({c \in ChildIds : children[c] # "absent"}) + 1

\* Arc::strong_count of pool i: the static POOL and every PooledTransport.pool.
ArcCount(P, ts, i) ==
    (IF P = i THEN 1 ELSE 0)
    + Cardinality({t \in Transports : ts[t].status = "live" /\ ts[t].pool = i})

\* The pools whose last Arc is gone.
Unreferenced(P, ts, ps) ==
    {i \in PoolIds : ps[i].status = "live" /\ ArcCount(P, ts, i) = 0}

\* Dropping a ConnectionPool drops return_rx, and the Receiver drops the
\* workers still in the channel: impl Drop for PooledWorker kills each.
DropPools(ps, D) == [i \in PoolIds |-> IF i \in D THEN DroppedPool ELSE ps[i]]

KillIdle(ch, ps, D) ==
    [c \in ChildIds |->
        IF \E i \in D : c \in Range(ps[i].return_chan) THEN "killed" ELSE ch[c]]

\* Guards that are out of pool i: each holds one permit of its semaphore.
GuardsOut(i) ==
    Cardinality({t \in Transports : transports[t].status = "live"
                                     /\ transports[t].pool = i
                                     /\ transports[t].guard # NoChild})

\* init_global_pool: ConnectionPool::new, initialize() when enabled, then
\* *guard = Some(pool), which drops the Arc of the pool that was there.  k is
\* the number of workers initialize() spawns before it returns: all min_size
\* of them (Ok), or fewer because the next spawn failed (the `?` returns, the
\* new pool is dropped and POOL is left alone).  initialize() keeps the first
\* max_size workers in the channel and drops the others.
init_global_pool ==
    /\ NextPoolId <= MaxPools
    /\ \E cfg \in GlobalConfigs :
         LET n == IF cfg.enabled THEN cfg.min_size ELSE 0 IN
         \E k \in 0..n :
           LET i == NextPoolId
               first == NextChildId
               kept == Min(k, cfg.max_size)
               chan == [j \in 1..kept |-> first + j - 1]
               spawned == first..(first + k - 1)
               made == [pools EXCEPT ![i] = [NewPool(cfg) EXCEPT !.return_chan = chan]]
               D == Unreferenced(i, transports, made)
           IN
           /\ first + k - 1 <= MaxChildren
           /\ IF k = n
              THEN /\ POOL' = i
                   /\ pools' = DropPools(made, D)
                   /\ children' = KillIdle(
                         [c \in ChildIds |->
                             IF c \in spawned
                             THEN (IF c < first + kept THEN "running" ELSE "killed")
                             ELSE children[c]], made, D)
              ELSE /\ POOL' = POOL
                   /\ pools' = [pools EXCEPT ![i] = DroppedPool]
                   /\ children' = [c \in ChildIds |->
                                     IF c \in spawned THEN "killed" ELSE children[c]]
    /\ UNCHANGED <<transports, pres>>
    /\ UNCHANGED <<poolvars, svars, iovars>>

\* shutdown_global_pool: *guard = None.  The pool is dropped when that was
\* its last Arc.
shutdown_global_pool ==
    /\ POOL' = NoPool
    /\ LET D == Unreferenced(NoPool, transports, pools) IN
       /\ pools' = DropPools(pools, D)
       /\ children' = KillIdle(children, pools, D)
    /\ UNCHANGED <<transports, pres>>
    /\ UNCHANGED <<poolvars, svars, iovars>>

\* PooledTransport::new: the transport builds a ConnectionPool of its own.
PooledTransport_new(t) ==
    /\ transports[t].status = "absent"
    /\ NextPoolId <= MaxPools
    /\ \E cfg \in GlobalConfigs :
         /\ pools' = [pools EXCEPT ![NextPoolId] = NewPool(cfg)]
         /\ transports' = [transports EXCEPT ![t] =
                              [status |-> "live", pool |-> NextPoolId,
                               guard |-> NoChild, ready |-> FALSE]]
    /\ UNCHANGED <<POOL, children, pres>>

\* PooledTransport::from_pool(get_global_pool().unwrap(), options)
PooledTransport_from_pool(t) ==
    /\ transports[t].status = "absent"
    /\ POOL # NoPool
    /\ transports' = [transports EXCEPT ![t] =
                         [status |-> "live", pool |-> POOL,
                          guard |-> NoChild, ready |-> FALSE]]
    /\ UNCHANGED <<POOL, pools, children, pres>>

\* impl Drop for WorkerGuard at this level: what becomes of pool i's channel
\* and of worker c when the guard that holds c is dropped.  try_send fails on a
\* full channel and on one whose Receiver is gone; the worker is then dropped.
ChanAfterReturn(ps, i, c) ==
    IF ps[i].status = "live" /\ Len(ps[i].return_chan) < ps[i].max_size
    THEN [ps EXCEPT ![i].return_chan = Append(@, c)]
    ELSE ps

ChildAfterReturn(ch, ps, i, c) ==
    IF ps[i].status = "live" /\ Len(ps[i].return_chan) < ps[i].max_size
    THEN ch
    ELSE [ch EXCEPT ![c] = "killed"]

\* PooledTransport::connect.  outcome is what Command::spawn would do now;
\* stale says whether the oldest idle worker is past its idle timeout.  With
\* all max_size permits out, acquire() waits and, nobody releasing one within
\* ACQUIRE_TIMEOUT_SECS, returns the timeout error.
PooledTransport_connect(t, outcome, stale) ==
    LET tr == transports[t]
        pl == pools[tr.pool]
        reuse == pl.return_chan # <<>> /\ ~stale
        taken == IF pl.return_chan # <<>>
                 THEN [pools EXCEPT ![tr.pool].return_chan = Tail(@)]
                 ELSE pools
        dropped == IF pl.return_chan # <<>>
                   THEN [children EXCEPT ![Head(pl.return_chan)] = "killed"]
                   ELSE children
    IN
    /\ tr.status = "live"
    /\ UNCHANGED POOL
    /\ IF tr.ready
       THEN /\ pres' = [pres EXCEPT ![t] = "Ok"]
            /\ UNCHANGED <<pools, transports, children>>
       ELSE IF ~pl.enabled \/ GuardsOut(tr.pool) >= pl.max_size
       THEN /\ pres' = [pres EXCEPT ![t] = "Connection"]
            /\ UNCHANGED <<pools, transports, children>>
       ELSE IF reuse
       THEN /\ pools' = taken
            /\ transports' = [transports EXCEPT ![t].guard = Head(pl.return_chan),
                                                ![t].ready = TRUE]
            /\ pres' = [pres EXCEPT ![t] = "Ok"]
            /\ UNCHANGED children
       ELSE IF outcome = "ok"
       THEN /\ NextChildId <= MaxChildren
            /\ pools' = taken
            /\ children' = [dropped EXCEPT ![NextChildId] = "running"]
            /\ transports' = [transports EXCEPT ![t].guard = NextChildId,
                                                ![t].ready = TRUE]
            /\ pres' = [pres EXCEPT ![t] = "Ok"]
       ELSE /\ pools' = taken
            /\ children' = dropped
            /\ pres' = [pres EXCEPT ![t] = "Process"]
            /\ UNCHANGED transports

\* PooledTransport::write: no guard gives the Transport error; otherwise
\* PooledWorker::write, which fails with the Transport error on a broken pipe.
PooledTransport_write(t) ==
    /\ transports[t].status = "live"
    /\ pres' = [pres EXCEPT ![t] =
                  IF transports[t].guard # NoChild
                     /\ children[transports[t].guard] = "running"
                  THEN "Ok" ELSE "Transport"]
    /\ UNCHANGED <<POOL, pools, transports, children>>

\* PooledTransport::end_input: nothing is closed.
PooledTransport_end_input(t) ==
    /\ transports[t].status = "live"
    /\ pres' = [pres EXCEPT ![t] = "Ok"]
    /\ UNCHANGED <<POOL, pools, transports, children>>

\* PooledTransport::close: self.guard = None drops the guard.
PooledTransport_close(t) ==
    LET tr == transports[t] IN
    /\ tr.status = "live"
    /\ IF tr.guard # NoChild
       THEN /\ pools' = ChanAfterReturn(pools, tr.pool, tr.guard)
            /\ children' = ChildAfterReturn(children, pools, tr.pool, tr.guard)
       ELSE UNCHANGED <<pools, children>>
    /\ transports' = [transports EXCEPT ![t].guard = NoChild, ![t].ready = FALSE]
    /\ pres' = [pres EXCEPT ![t] = "Ok"]
    /\ UNCHANGED POOL

\* The PooledTransport is dropped: its fields go in declaration order, the
\* pool Arc first (the pool is dropped if that was the last one), then the
\* guard, whose worker goes back to a pool that still lives.
PooledTransport_drop(t) ==
    LET tr == transports[t]
        gone == [transports EXCEPT ![t] = DroppedTransport]
        D == Unreferenced(POOL, gone, pools)
        ps == DropPools(pools, D)
        ch == KillIdle(children, pools, D)
    IN
    /\ tr.status = "live"
    /\ transports' = gone
    /\ IF tr.guard # NoChild
       THEN /\ pools' = ChanAfterReturn(ps, tr.pool, tr.guard)
            /\ children' = ChildAfterReturn(ch, ps, tr.pool, tr.guard)
       ELSE /\ pools' = ps
            /\ children' = ch
    /\ UNCHANGED <<POOL, pres>>

\* The process of a pooled worker exits on its own.
ChildExits(c) ==
    /\ children[c] = "running"
    /\ children' = [children EXCEPT ![c] = "exited"]
    /\ UNCHANGED <<POOL, pools, transports, pres>>

NewTransport(t) == PooledTransport_new(t) /\ UNCHANGED <<poolvars, svars, iovars>>

FromPool(t) == PooledTransport_from_pool(t) /\ UNCHANGED <<poolvars, svars, iovars>>

Connect(t) ==
    /\ \E outcome \in {"ok", "process_error"} : \E stale \in BOOLEAN :
          PooledTransport_connect(t, outcome, stale)
    /\ UNCHANGED <<poolvars, svars, iovars>>

Write(t) == PooledTransport_write(t) /\ UNCHANGED <<poolvars, svars, iovars>>

EndInput(t) == PooledTransport_end_input(t) /\ UNCHANGED <<poolvars, svars, iovars>>

Close(t) == PooledTransport_close(t) /\ UNCHANGED <<poolvars, svars, iovars>>

DropTransport(t) == PooledTransport_drop(t) /\ UNCHANGED <<poolvars, svars, iovars>>

WorkerExits(c) == ChildExits(c) /\ UNCHANGED <<poolvars, svars, iovars>>

GlobalNext ==
    \/ init_global_pool
    \/ shutdown_global_pool
    \/ \E t \in Transports : NewTransport(t)
    \/ \E t \in Transports : FromPool(t)
    \/ \E t \in Transports : Connect(t)
    \/ \E t \in Transports : Write(t)
    \/ \E t \in Transports : EndInput(t)
    \/ \E t \in Transports : Close(t)
    \/ \E t \in Transports : DropTransport(t)
    \/ \E c \in ChildIds : WorkerExits(c)

GlobalSpecInit == PoolUnused /\ GlobalInit /\ SubprocessInit /\ IoUnused

GlobalSpec == GlobalSpecInit /\ [][GlobalNext]_vars

\* ----------------------------------------------------- SubprocessTransport
\* The fields stdin, stdout and process hold the id of the process whose
\* handle they are, or NoProc for None.  stdin_arc is None (some = FALSE) or
\* the shared Arc<Mutex<Option<ChildStdin>>> with its inner Option.

\* Exit codes of a process: success or failure.
ExitCodes == {0, 1}

\* QueryPrompt::Text and ::Content are handled alike by connect().
Prompts == {"Text", "Streaming"}

NextProcId == Cardinality({p \in ProcIds : procs[p].status # "absent"}) + 1

\* The result of a call: the operation, Ok or the ClaudeError variant (for a
\* read: what the stream yields), and the exit code a ProcessError carries.
Res(op, kind, code) == [op |-> op, kind |-> kind, code |-> code]

ValidateCwd_exists_only(cwd) == IF cwd = "missing" THEN "InvalidConfig" ELSE "Ok"

\* SubprocessTransport::new, the check of options.cwd: a path that does not
\* exist, or is not a directory, is the InvalidConfig error; None is accepted.
ValidateCwd(cwd) == IF cwd \in {"missing", "not_a_dir"} THEN "InvalidConfig" ELSE "Ok"

\* SubprocessTransport::new: the cwd is validated first; then the CLI is
\* looked up and the fields are set.
SubprocessTransport_new(cwd, prompt) ==
    /\ st.status = "absent"
    /\ IF ValidateCwd(cwd) # "Ok"
       THEN /\ sres' = Res("new", ValidateCwd(cwd), 0)
            /\ UNCHANGED st
       ELSE /\ st' = [BuiltTransport EXCEPT !.prompt = prompt]
            /\ sres' = Res("new", "Ok", 0)
    /\ UNCHANGED procs

\* take_stdin_arc: moves stdin into a new shared cell, or hands out the
\* existing one.
take_stdin_arc ==
    /\ st.status = "built"
    /\ IF st.stdin # NoProc
       THEN st' = [st EXCEPT !.stdin_arc = [some |-> TRUE, stdin |-> st.stdin],
                             !.stdin = NoProc]
       ELSE UNCHANGED st
    /\ sres' = Res("take_stdin_arc", "Ok", 0)
    /\ UNCHANGED procs

\* write on a pipe: the bytes are accepted while the process at the other end
\* runs; after it has gone write_all fails and maps to the Transport error.
PipeWrite(p) == IF procs[p].status = "running" THEN "Ok" ELSE "Transport"

\* A write() that knows the direct stdin only, as the note on take_stdin_arc
\* has it ("write() on the transport will fail").
WriteResult_direct_only(s) ==
    IF s.stdin # NoProc THEN PipeWrite(s.stdin) ELSE "Transport"

\* SubprocessTransport::write: the direct stdin first, else the shared one.
WriteResult(s) ==
    IF s.stdin # NoProc THEN PipeWrite(s.stdin)
    ELSE IF s.stdin_arc.some /\ s.stdin_arc.stdin # NoProc
         THEN PipeWrite(s.stdin_arc.stdin)
         ELSE "Transport"

SubprocessTransport_write ==
    /\ st.status = "built"
    /\ sres' = Res("write", WriteResult(st), 0)
    /\ UNCHANGED <<st, procs>>

\* end_input leaves the fields like this: the direct stdin is taken and shut
\* down and the call returns; only without a direct stdin is the shared one
\* taken.
AfterEndInput(s) ==
    IF s.stdin # NoProc THEN [s EXCEPT !.stdin = NoProc]
    ELSE IF s.stdin_arc.some THEN [s EXCEPT !.stdin_arc.stdin = NoProc]
    ELSE s

SubprocessTransport_end_input ==
    /\ st.status = "built"
    /\ st' = AfterEndInput(st)
    /\ sres' = Res("end_input", "Ok", 0)
    /\ UNCHANGED procs

\* SubprocessTransport::connect.  outcome: the version check fails
\* (Connection), Command::spawn fails (Process), or the process starts; it
\* will write `lines` lines.  The new handles overwrite the old fields (a
\* Child that is overwritten is dropped, which does not kill it); stdin_arc is
\* not touched.  A Text prompt is written and stdin is closed at once.
SubprocessTransport_connect(outcome, lines) ==
    /\ st.status = "built"
    /\ IF outcome = "version_error"
       THEN /\ sres' = Res("connect", "Connection", 0)
            /\ UNCHANGED <<st, procs>>
       ELSE IF outcome = "process_error"
       THEN /\ sres' = Res("connect", "Process", 0)
            /\ UNCHANGED <<st, procs>>
       ELSE LET p == NextProcId
                connected == [st EXCEPT !.stdin = p, !.stdout = p,
                                        !.process = p, !.ready = TRUE]
            IN
            /\ p <= MaxProcs
            /\ procs' = [procs EXCEPT ![p] =
                            [status |-> "running", code |-> 0, lines |-> lines,
                             waited |-> FALSE]]
            /\ st' = IF st.prompt = "Text" THEN AfterEndInput(connected)
                     ELSE connected
            /\ sres' = Res("connect", "Ok", 0)

\* One item of read_messages / read_raw_messages.  Without stdout the stream
\* ends at once; a line is yielded as an item, as the JsonDecode error
\* (read_messages) or, too long, as the Transport error; with no line left the
\* stream ends at EOF once the process has gone, and waits while it runs.
SubprocessTransport_read ==
    /\ st.status = "built"
    /\ IF st.stdout = NoProc
       THEN /\ sres' = Res("read", "End", 0)
            /\ UNCHANGED procs
       ELSE IF procs[st.stdout].lines > 0
       THEN /\ procs' = [procs EXCEPT ![st.stdout].lines = @ - 1]
            /\ \E item \in {"Item", "JsonDecode", "Transport"} :
                  sres' = Res("read", item, 0)
       ELSE /\ procs[st.stdout].status # "running"
            /\ sres' = Res("read", "End", 0)
            /\ UNCHANGED procs
    /\ UNCHANGED st

TakeHandles_keeps_shared(s) == [s EXCEPT !.stdin = NoProc, !.process = NoProc]

\* close() takes the direct stdin, the stdin inside the shared cell and the
\* process out of the transport.
TakeHandles(s) == [s EXCEPT !.stdin = NoProc,
                            !.stdin_arc.stdin = NoProc,
                            !.process = NoProc]

ExitResult_ignored(status) == "Ok"

\* close(): `if !status.success()` gives the Process error with status.code().
ExitResult(status) == IF status # 0 THEN "Process" ELSE "Ok"

\* SubprocessTransport::close: both stdin handles are taken and shut down,
\* the process is taken and waited for; code is the exit code of a process
\* that exits during the wait.  A non-zero status returns the Process error
\* before ready is cleared.
SubprocessTransport_close(code) ==
    LET p == st.process
        shut == TakeHandles(st)
        status == IF procs[p].status = "running" THEN code ELSE procs[p].code
    IN
    /\ st.status = "built"
    /\ IF p = NoProc
       THEN /\ st' = [shut EXCEPT !.ready = FALSE]
            /\ sres' = Res("close", "Ok", 0)
            /\ UNCHANGED procs
       ELSE /\ procs' = [procs EXCEPT ![p].status = IF @ = "running" THEN "exited" ELSE @,
                                      ![p].code = status,
                                      ![p].waited = TRUE]
            /\ IF ExitResult(status) # "Ok"
               THEN /\ st' = shut
                    /\ sres' = Res("close", ExitResult(status), status)
               ELSE /\ st' = [shut EXCEPT !.ready = FALSE]
                    /\ sres' = Res("close", "Ok", 0)

start_kill_not_called(ps, p) == ps

\* Child::start_kill: a process that still runs is killed.
start_kill(ps, p) == IF ps[p].status = "running"
                     THEN [ps EXCEPT ![p].status = "killed"]
                     ELSE ps

\* impl Drop for SubprocessTransport: start_kill on the process it still has.
SubprocessTransport_drop ==
    /\ st.status = "built"
    /\ st' = [st EXCEPT !.status = "dropped"]
    /\ procs' = IF st.process # NoProc THEN start_kill(procs, st.process) ELSE procs
    /\ UNCHANGED sres

\* A process exits on its own with some exit code.
ProcExits(p, code) ==
    /\ procs[p].status = "running"
    /\ procs' = [procs EXCEPT ![p].status = "exited", ![p].code = code]
    /\ UNCHANGED <<st, sres>>

\* The working directory handed to SubprocessTransport::new.
Cwds == {"none", "exists", "missing", "not_a_dir"}

NewSubprocess ==
    /\ \E cwd \in Cwds : \E prompt \in Prompts : SubprocessTransport_new(cwd, prompt)
    /\ UNCHANGED <<poolvars, gvars, iovars>>

TakeStdinArc == take_stdin_arc /\ UNCHANGED <<poolvars, gvars, iovars>>

Read == SubprocessTransport_read /\ UNCHANGED <<poolvars, gvars, iovars>>

DropSubprocess == SubprocessTransport_drop /\ UNCHANGED <<poolvars, gvars, iovars>>

SubprocessExits(p) ==
    /\ \E code \in ExitCodes : ProcExits(p, code)
    /\ UNCHANGED <<poolvars, gvars, iovars>>

\* The PooledTransport that is given the same calls as the SubprocessTransport.
PT == 1

\* The same call on both transports, in the same environment: the CLI starts
\* for both or for neither.
BothConnect ==
    /\ \E outcome \in {"ok", "version_error", "process_error"} :
       \E lines \in 0..MaxLines : \E stale \in BOOLEAN :
          /\ SubprocessTransport_connect(outcome, lines)
          /\ PooledTransport_connect(
                PT, IF outcome = "ok" THEN "ok" ELSE "process_error", stale)
    /\ UNCHANGED <<poolvars, iovars>>

BothWrite ==
    /\ SubprocessTransport_write
    /\ PooledTransport_write(PT)
    /\ UNCHANGED <<poolvars, iovars>>

BothEndInput ==
    /\ SubprocessTransport_end_input
    /\ PooledTransport_end_input(PT)
    /\ UNCHANGED <<poolvars, iovars>>

BothClose ==
    /\ \E code \in ExitCodes : SubprocessTransport_close(code)
    /\ PooledTransport_close(PT)
    /\ UNCHANGED <<poolvars, iovars>>

TransportInit == PoolUnused /\ GlobalInit /\ SubprocessInit /\ IoUnused

TransportNext ==
    \/ NewSubprocess
    \/ NewTransport(PT)
    \/ BothConnect
    \/ BothWrite
    \/ BothEndInput
    \/ BothClose
    \/ TakeStdinArc
    \/ Read
    \/ DropSubprocess
    \/ DropTransport(PT)
    \/ \E p \in ProcIds : SubprocessExits(p)
    \/ \E c \in ChildIds : WorkerExits(c)

TransportSpec == TransportInit /\ [][TransportNext]_vars

\* The SubprocessTransport on its own: the calls of its Transport
\* implementation with no PooledTransport beside it.
SubprocessConnect ==
    /\ \E outcome \in {"ok", "version_error", "process_error"} :
       \E lines \in 0..MaxLines : SubprocessTransport_connect(outcome, lines)
    /\ UNCHANGED <<poolvars, gvars, iovars>>

SubprocessWrite == SubprocessTransport_write /\ UNCHANGED <<poolvars, gvars, iovars>>

SubprocessEndInput == SubprocessTransport_end_input /\ UNCHANGED <<poolvars, gvars, iovars>>

SubprocessClose ==
    /\ \E code \in ExitCodes : SubprocessTransport_close(code)
    /\ UNCHANGED <<poolvars, gvars, iovars>>

SubprocessNext ==
    \/ NewSubprocess
    \/ SubprocessConnect
    \/ SubprocessWrite
    \/ SubprocessEndInput
    \/ SubprocessClose
    \/ TakeStdinArc
    \/ Read
    \/ DropSubprocess
    \/ \E p \in ProcIds : SubprocessExits(p)

SubprocessSpec == TransportInit /\ [][SubprocessNext]_vars

\* ------------------------------------------------------------ read streams
\* One connected SubprocessTransport and the streams read_messages() and
\* read_raw_messages() give out.  A stream borrows the transport mutably, so
\* there is one at a time.  A line of the process's output is a record of its
\* byte length (terminator included) and its text; the last character of a
\* text stands for the line terminator.

\* A blank line, a JSON document, a line that is not JSON, bytes that are not
\* UTF-8.
Texts == {" ", "{} ", "x ", "0xff "}

\* The lines the process may write: JSON documents of every size, and short
\* lines of the other kinds.
Lines == [len : Sizes, text : {"{} "}, torn : {FALSE}]
         \cup [len : {32}, text : Texts, torn : {FALSE}]

Trim_nothing(t) == t

\* str::trim
Trim(t) == CASE t = " " -> ""
             [] t = "{} " -> "{}"
             [] t = "} " -> "}"
             [] t = "x " -> "x"
             [] OTHER -> t

\* What is left to read of a line whose first bytes are gone.
Rest(t) == IF t = "{} " THEN "} " ELSE t

\* The line as read_line delivers it.
AsRead(l) == IF l.torn THEN [l EXCEPT !.text = Rest(l.text)] ELSE l

\* read_line fails on bytes that are not UTF-8.
IsUtf8(t) == t # "0xff "

\* serde_json::from_str::<Value>
Parse(t) == IF t = "{}" THEN "Ok" ELSE "JsonDecode"

Item(kind, n, text) == [kind |-> kind, n |-> n, text |-> text]

ExceedsCeiling_cumulative(bytes_read, total, max) == total + bytes_read > max

\* `if bytes_read > max_message_size`
ExceedsCeiling(bytes_read, total, max) == bytes_read > max

Grow_unclamped(cap, gf, max) == (cap * gf[1]) \div gf[2]

\* (current_capacity as f64 * growth_factor) as usize, then .min(max)
Grow(cap, gf, max) == Min((cap * gf[1]) \div gf[2], max)

\* AtomicBufferMetrics::update_peak, when nobody else updates
UpdatePeak(peak, size) == IF size > peak THEN size ELSE peak

\* inc_message_count, add_bytes, update_peak and, if the line is longer than
\* the capacity, inc_resize_count
Track(m, bytes_read, cap) ==
    [m EXCEPT !.message_count = @ + 1,
              !.total_bytes = @ + bytes_read,
              !.peak_size = UpdatePeak(@, bytes_read),
              !.resize_count = IF bytes_read > cap THEN @ + 1 ELSE @]

\* read_messages() (raw = FALSE) or read_raw_messages(): a new stream, with
\* its own line buffer and current_capacity = initial_size.
NewStream(raw) ==
    /\ stream.status = "none"
    /\ stream' = [status |-> "open", raw |-> raw,
                  current_capacity |-> buffer_config.initial_size,
                  first |-> rpos]
    /\ yielded' = <<>>
    /\ UNCHANGED <<buffer_config, buffer_metrics, out, part, eof, rpos, conn, due>>

\* The stream is polled: one turn of its loop.  read_line takes the next
\* line, or ends the stream at EOF; with no line there and no EOF it stays
\* pending.
StreamPoll ==
    /\ stream.status = "open"
    /\ UNCHANGED <<buffer_config, out, eof, conn>>
    /\ IF rpos < Len(out)
       THEN LET n == rpos + 1
                l == AsRead(out[n])
                bytes_read == l.len
                cap == stream.current_capacity
                trimmed == Trim(l.text)
            IN
            /\ rpos' = n
            /\ UNCHANGED part
            /\ IF ~IsUtf8(l.text)
               THEN /\ yielded' = Append(yielded, Item("ReadFailed", n, ""))
                    /\ stream' = [stream EXCEPT !.status = "ended"]
                    /\ UNCHANGED <<buffer_metrics, due>>
               ELSE IF ExceedsCeiling(bytes_read, buffer_metrics.total_bytes,
                                      buffer_config.max_message_size)
               THEN /\ yielded' = Append(yielded, Item("SizeExceeded", n, ""))
                    /\ stream' = [stream EXCEPT !.status = "ended"]
                    /\ UNCHANGED <<buffer_metrics, due>>
               ELSE /\ due' = IF bytes_read > cap THEN due + 1 ELSE due
                    /\ IF buffer_config.enable_metrics
                       THEN /\ buffer_metrics' = Track(buffer_metrics, bytes_read, cap)
                            /\ stream' = [stream EXCEPT !.current_capacity =
                                  IF bytes_read > cap
                                  THEN Grow(cap, buffer_config.growth_factor,
                                            buffer_config.max_message_size)
                                  ELSE cap]
                       ELSE UNCHANGED <<buffer_metrics, stream>>
                    /\ yielded' =
                          IF trimmed = "" THEN yielded
                          ELSE IF stream.raw
                          THEN Append(yielded, Item("Ok", n, trimmed))
                          ELSE Append(yielded, Item(Parse(trimmed), n, trimmed))
       ELSE /\ eof
            /\ stream' = [stream EXCEPT !.status = "ended"]
            /\ UNCHANGED <<buffer_metrics, part, rpos, yielded, due>>

\* The stream is dropped, and with it its line buffer and a pending
\* read_line: the bytes that read_line had taken are gone.
DropStream ==
    /\ stream.status # "none"
    /\ stream' = NoStream
    /\ yielded' = <<>>
    /\ part' = IF part = "taken" THEN "lost" ELSE part
    /\ UNCHANGED <<buffer_config, buffer_metrics, out, eof, rpos, conn, due>>

\* The process writes a line, or the end of the line it had begun.
ProcessWritesLine(l) ==
    /\ conn.process = "running"
    /\ Len(out) < MaxOutLines
    /\ out' = Append(out, [l EXCEPT !.torn = (part = "lost")])
    /\ part' = "none"
    /\ UNCHANGED <<buffer_config, buffer_metrics, eof, rpos, stream, yielded, conn, due>>

\* The process writes the first bytes of a line while the read_line of the
\* stream is pending: read_line takes them into the stream's buffer and
\* stays pending.  (Bytes written while nobody reads stay in the pipe, which
\* is as if they were written later.)
ProcessWritesPart ==
    /\ conn.process = "running"
    /\ Len(out) < MaxOutLines
    /\ part = "none"
    /\ stream.status = "open" /\ rpos = Len(out)
    /\ part' = "taken"
    /\ UNCHANGED <<buffer_config, buffer_metrics, out, eof, rpos, stream, yielded,
                   conn, due>>

\* The process exits: stdout is at EOF after what it has written.
ProcessExitsAtEol ==
    /\ conn.process = "running"
    /\ part = "none"
    /\ conn' = [conn EXCEPT !.process = "exited"]
    /\ eof' = TRUE
    /\ UNCHANGED <<buffer_config, buffer_metrics, out, part, rpos, stream, yielded, due>>

ReadStream == (\E raw \in BOOLEAN : NewStream(raw)) /\ UNCHANGED <<poolvars, gvars, svars, kvars, wvars, xvars>>

PollStream == StreamPoll /\ UNCHANGED <<poolvars, gvars, svars, kvars, wvars, xvars>>

DropReadStream == DropStream /\ UNCHANGED <<poolvars, gvars, svars, kvars, wvars, xvars>>

OutputLine == (\E l \in Lines : ProcessWritesLine(l)) /\ UNCHANGED <<poolvars, gvars, svars, kvars, wvars, xvars>>

OutputPart == ProcessWritesPart /\ UNCHANGED <<poolvars, gvars, svars, kvars, wvars, xvars>>

OutputEnds == ProcessExitsAtEol /\ UNCHANGED <<poolvars, gvars, svars, kvars, wvars, xvars>>

ReadInit ==
    PoolUnused /\ GlobalInit /\ SubprocessInit /\ ReaderInit /\ PeakInit /\ WriterUnused
       /\ XUnused

ReadNext ==
    \/ ReadStream
    \/ PollStream
    \/ DropReadStream
    \/ OutputLine
    \/ OutputPart
    \/ OutputEnds

ReadSpec == ReadInit /\ [][ReadNext]_vars

\* ------------------------------------------------------------- update_peak
\* AtomicBufferMetrics is Sync and update_peak takes &self: any number of
\* threads may be inside it.  Each atomic operation is one step.

CasSucceeds_always(peak, current) == TRUE

\* compare_exchange_weak(current, size): stores only if peak_size is still
\* `current`.  (A spurious failure hands back the same value and changes
\* nothing: it is a stuttering step.)
CasSucceeds(peak, current) == peak = current

\* update_peak(size) is entered: `let mut current = peak_size.load()`
update_peak_load(u, size) ==
    /\ upd[u].pc = "idle"
    /\ upd' = [upd EXCEPT ![u] = [pc |-> "loop", size |-> size, current |-> peak_size]]
    /\ largest' = IF size > largest THEN size ELSE largest
    /\ UNCHANGED <<peak_size, was_reset>>

\* One turn of `while size > current`: the compare-exchange, or the return.
update_peak_loop(u) ==
    /\ upd[u].pc = "loop"
    /\ UNCHANGED <<largest, was_reset>>
    /\ IF upd[u].size > upd[u].current
       THEN IF CasSucceeds(peak_size, upd[u].current)
            THEN /\ peak_size' = upd[u].size
                 /\ upd' = [upd EXCEPT ![u] = IdleUpdater]
            ELSE /\ upd' = [upd EXCEPT ![u].current = peak_size]
                 /\ UNCHANGED peak_size
       ELSE /\ upd' = [upd EXCEPT ![u] = IdleUpdater]
            /\ UNCHANGED peak_size

\* AtomicBufferMetrics::reset: peak_size.store(0)
AtomicBufferMetrics_reset ==
    /\ peak_size # 0
    /\ peak_size' = 0
    /\ was_reset' = TRUE
    /\ UNCHANGED <<upd, largest>>

UpdatePeakCall(u) ==
    /\ \E size \in Sizes : update_peak_load(u, size)
    /\ UNCHANGED <<poolvars, gvars, svars, rvars, wvars, xvars>>

UpdatePeakStep(u) == update_peak_loop(u) /\ UNCHANGED <<poolvars, gvars, svars, rvars, wvars, xvars>>

ResetPeak == AtomicBufferMetrics_reset /\ UNCHANGED <<poolvars, gvars, svars, rvars, wvars, xvars>>

PeakSpecInit ==
    PoolUnused /\ GlobalInit /\ SubprocessInit /\ ReaderUnused /\ PeakInit /\ WriterUnused
       /\ XUnused

PeakNext ==
    \/ \E u \in Updaters : UpdatePeakCall(u)
    \/ \E u \in Updaters : UpdatePeakStep(u)
    \/ ResetPeak

PeakSpec == PeakSpecInit /\ [][PeakNext]_vars

\* ------------------------------------------------------------- write side
\* One SubprocessTransport, connected at most once, whose process runs.  The
\* calls of the transport take &mut self, so one is under way at a time; each
\* await inside a call is a step.  Beside the transport there is the holder of
\* the Arc that take_stdin_arc returned, which locks the Mutex and writes
\* whatever it likes.

Chunk(who, kind, n) == [who |-> who, kind |-> kind, n |-> n]

WRes(op, kind) == [op |-> op, kind |-> kind]

SendsPrompt_always(prompt) == TRUE

\* connect, `match &self.prompt`: Text and Content are written and stdin is
\* closed, Streaming sends nothing.
SendsPrompt(prompt) == prompt # "Streaming"

LockAfterData_released(l) == "free"

\* write through the shared stdin: stdin_guard lives until write returns.
LockAfterData(l) == l

\* write(): which stdin it uses.
WritePath(t) == IF t.stdin = "open" THEN "direct"
                ELSE IF t.stdin_arc # "none" THEN "shared"
                ELSE "none"

\* connect(): version check and spawn fail, or the fields are set; then the
\* prompt is written (a Content prompt is serialized first, which may fail).
SubprocessTransport_connect_begin(outcome, serialized) ==
    /\ call = NoCall
    /\ wt.process = "none"
    /\ UNCHANGED <<stdin_pipe, lock, ctl>>
    /\ IF outcome = "version_error"
       THEN /\ wres' = WRes("connect", "Connection")
            /\ UNCHANGED <<wt, call, wn>>
       ELSE IF outcome = "process_error"
       THEN /\ wres' = WRes("connect", "Process")
            /\ UNCHANGED <<wt, call, wn>>
       ELSE /\ wt' = [wt EXCEPT !.stdin = "open", !.process = "running", !.ready = TRUE]
            /\ IF ~SendsPrompt(wt.prompt)
               THEN /\ wres' = WRes("connect", "Ok")
                    /\ UNCHANGED <<call, wn>>
               ELSE IF wt.prompt = "Content" /\ ~serialized
               THEN /\ wres' = WRes("connect", "Transport")
                    /\ UNCHANGED <<call, wn>>
               ELSE /\ call' = [op |-> "connect", pc |-> "data", n |-> wn + 1,
                                via |-> "direct"]
                    /\ wn' = wn + 1
                    /\ UNCHANGED wres

\* write() is called: with the direct stdin, else through the shared one
\* (after stdin_arc.lock().await), else it fails.
SubprocessTransport_write_begin ==
    /\ call = NoCall
    /\ wn < MaxWrites
    /\ UNCHANGED <<wt, stdin_pipe, lock, ctl>>
    /\ IF WritePath(wt) = "none"
       THEN /\ wres' = WRes("write", "Transport")
            /\ UNCHANGED <<call, wn>>
       ELSE /\ call' = [op |-> "write",
                        pc |-> IF WritePath(wt) = "direct" THEN "data" ELSE "lock",
                        n |-> wn + 1, via |-> WritePath(wt)]
            /\ wn' = wn + 1
            /\ UNCHANGED wres

\* stdin_arc.lock().await returns: the cell holds the stdin, or it is empty
\* and write fails (the guard is dropped on return).
SubprocessTransport_write_lock ==
    /\ call.op = "write" /\ call.pc = "lock"
    /\ lock = "free"
    /\ UNCHANGED <<wt, stdin_pipe, ctl, wn>>
    /\ IF wt.stdin_arc = "open"
       THEN /\ lock' = "transport"
            /\ call' = [call EXCEPT !.pc = "data"]
            /\ UNCHANGED wres
       ELSE /\ wres' = WRes("write", "Transport")
            /\ call' = NoCall
            /\ UNCHANGED lock

\* stdin.write_all(data.as_bytes()).await
SubprocessTransport_write_data ==
    /\ call.pc = "data"
    /\ stdin_pipe' = Append(stdin_pipe, Chunk("transport", "data", call.n))
    /\ call' = [call EXCEPT !.pc = "nl"]
    /\ lock' = IF call.via = "shared" THEN LockAfterData(lock) ELSE lock
    /\ UNCHANGED <<wt, wres, ctl, wn>>

\* stdin.write_all(b"\n").await
SubprocessTransport_write_newline ==
    /\ call.pc = "nl"
    /\ stdin_pipe' = Append(stdin_pipe, Chunk("transport", "nl", call.n))
    /\ call' = [call EXCEPT !.pc = "flush"]
    /\ UNCHANGED <<wt, lock, wres, ctl, wn>>

\* stdin.flush().await and return Ok(()): the guard of the shared stdin is
\* dropped.  Inside connect, end_input() follows: the direct stdin is taken
\* and shut down, and connect returns Ok(()).
SubprocessTransport_write_flush ==
    /\ call.pc = "flush"
    /\ call' = NoCall
    /\ lock' = IF call.via = "shared" /\ lock = "transport" THEN "free" ELSE lock
    /\ IF call.op = "connect"
       THEN /\ wt' = [wt EXCEPT !.stdin = "none"]
            /\ wres' = WRes("connect", "Ok")
       ELSE /\ wres' = WRes("write", "Ok")
            /\ UNCHANGED wt
    /\ UNCHANGED <<stdin_pipe, ctl, wn>>

\* end_input(): the direct stdin is taken and shut down, and that is all;
\* otherwise the shared cell is locked and emptied.
SubprocessTransport_end_input_begin ==
    /\ call = NoCall
    /\ UNCHANGED <<stdin_pipe, lock, ctl, wn>>
    /\ IF wt.stdin = "open"
       THEN /\ wt' = [wt EXCEPT !.stdin = "none"]
            /\ wres' = WRes("end_input", "Ok")
            /\ UNCHANGED call
       ELSE IF wt.stdin_arc # "none"
       THEN /\ call' = [op |-> "end_input", pc |-> "lock", n |-> 0, via |-> "shared"]
            /\ UNCHANGED <<wt, wres>>
       ELSE /\ wres' = WRes("end_input", "Ok")
            /\ UNCHANGED <<wt, call>>

SubprocessTransport_end_input_lock ==
    /\ call.op = "end_input" /\ call.pc = "lock"
    /\ lock = "free"
    /\ wt' = [wt EXCEPT !.stdin_arc = "empty"]
    /\ wres' = WRes("end_input", "Ok")
    /\ call' = NoCall
    /\ UNCHANGED <<stdin_pipe, lock, ctl, wn>>

\* take_stdin_arc(): the direct stdin moves into a new shared cell.
SubprocessTransport_take_stdin_arc ==
    /\ call = NoCall
    /\ wt.stdin = "open"
    /\ wt' = [wt EXCEPT !.stdin = "none", !.stdin_arc = "open"]
    /\ UNCHANGED <<stdin_pipe, lock, call, wres, ctl, wn>>

\* The other holder of the Arc: lock().await, any writes to the stdin it
\* finds in the cell, and the drop of its guard.
ControlLocks ==
    /\ wt.stdin_arc # "none"
    /\ ctl.pc = "idle" /\ ctl.sent < MaxControlChunks
    /\ lock = "free"
    /\ lock' = "control"
    /\ ctl' = [ctl EXCEPT !.pc = "locked"]
    /\ UNCHANGED <<wt, stdin_pipe, call, wres, wn>>

ControlWrites ==
    /\ ctl.pc = "locked" /\ ctl.sent < MaxControlChunks
    /\ wt.stdin_arc = "open"
    /\ stdin_pipe' = Append(stdin_pipe, Chunk("control", "raw", ctl.sent + 1))
    /\ ctl' = [ctl EXCEPT !.sent = @ + 1]
    /\ UNCHANGED <<wt, lock, call, wres, wn>>

ControlUnlocks ==
    /\ ctl.pc = "locked"
    /\ lock' = "free"
    /\ ctl' = [ctl EXCEPT !.pc = "idle"]
    /\ UNCHANGED <<wt, stdin_pipe, call, wres, wn>>

ConnectCall ==
    /\ \E outcome \in {"ok", "version_error", "process_error"} :
       \E serialized \in BOOLEAN :
          SubprocessTransport_connect_begin(outcome, serialized)
    /\ UNCHANGED <<poolvars, gvars, svars, rvars, kvars, xvars>>

WriteCall == SubprocessTransport_write_begin /\ UNCHANGED <<poolvars, gvars, svars, rvars, kvars, xvars>>

WriteLock == SubprocessTransport_write_lock /\ UNCHANGED <<poolvars, gvars, svars, rvars, kvars, xvars>>

WriteData == SubprocessTransport_write_data /\ UNCHANGED <<poolvars, gvars, svars, rvars, kvars, xvars>>

WriteNewline == SubprocessTransport_write_newline /\ UNCHANGED <<poolvars, gvars, svars, rvars, kvars, xvars>>

WriteFlush == SubprocessTransport_write_flush /\ UNCHANGED <<poolvars, gvars, svars, rvars, kvars, xvars>>

EndInputCall == SubprocessTransport_end_input_begin /\ UNCHANGED <<poolvars, gvars, svars, rvars, kvars, xvars>>

EndInputLock == SubprocessTransport_end_input_lock /\ UNCHANGED <<poolvars, gvars, svars, rvars, kvars, xvars>>

TakeStdin == SubprocessTransport_take_stdin_arc /\ UNCHANGED <<poolvars, gvars, svars, rvars, kvars, xvars>>

ControlLock == ControlLocks /\ UNCHANGED <<poolvars, gvars, svars, rvars, kvars, xvars>>

ControlWrite == ControlWrites /\ UNCHANGED <<poolvars, gvars, svars, rvars, kvars, xvars>>

ControlUnlock == ControlUnlocks /\ UNCHANGED <<poolvars, gvars, svars, rvars, kvars, xvars>>

WriteSpecInit ==
    PoolUnused /\ GlobalInit /\ SubprocessInit /\ ReaderUnused /\ PeakInit /\ WriterInit
       /\ XUnused

WriteNext ==
    \/ ConnectCall
    \/ WriteCall
    \/ WriteLock
    \/ WriteData
    \/ WriteNewline
    \/ WriteFlush
    \/ EndInputCall
    \/ EndInputLock
    \/ TakeStdin
    \/ ControlLock
    \/ ControlWrite
    \/ ControlUnlock

WriteSpec == WriteSpecInit /\ [][WriteNext]_vars

\* Nothing of the pools and of the SubprocessTransport is in use.
RestUnused ==
    /\ PoolUnused /\ GlobalInit /\ SubprocessInit
    /\ ReaderUnused /\ PeakInit /\ WriterUnused

\* The variables of the pools and of the SubprocessTransport.
restvars == <<poolvars, gvars, svars, rvars, kvars, wvars>>

\* ------------------------------------------------- sessions on pooled workers
\* PooledTransports built with from_pool over one pool whose max_size is at
\* least their number, so that acquire() never waits.  A session is what a
\* transport does between a connect() that returned Ok and its close().  A
\* worker answers each line it receives on stdin with one line on stdout,
\* when it gets to it; every request and every line carries the number of the
\* session whose write() it stems from.

NextWorker == Cardinality({c \in ChildIds : wk[c].status # "absent"}) + 1

FreshWorker == [status |-> "running", pending |-> <<>>, stdout |-> <<>>]

\* acquire() as connect() sees it: the oldest idle worker is taken out of the
\* channel; healthy and not past the idle timeout (reuse) it becomes the
\* guard's worker as it is, otherwise it is dropped (killed) and a worker is
\* spawned, which may fail.
PooledSession_connect(t, reuse, outcome) ==
    LET w == Head(idle_workers)
        recycled == IF idle_workers # <<>>
                    THEN [wk EXCEPT ![w].status = "killed"]
                    ELSE wk
        rest == IF idle_workers # <<>> THEN Tail(idle_workers) ELSE idle_workers
    IN
    /\ ~pt[t].ready
    /\ nsess < MaxSessions
    /\ UNCHANGED delivered
    /\ idle_workers' = rest
    /\ IF idle_workers # <<>> /\ reuse
       THEN /\ pt' = [pt EXCEPT ![t] = [guard |-> w, ready |-> TRUE,
                                        session |-> nsess + 1]]
            /\ nsess' = nsess + 1
            /\ UNCHANGED wk
       ELSE IF outcome = "ok"
       THEN /\ NextWorker <= MaxChildren
            /\ wk' = [recycled EXCEPT ![NextWorker] = FreshWorker]
            /\ pt' = [pt EXCEPT ![t] = [guard |-> NextWorker, ready |-> TRUE,
                                        session |-> nsess + 1]]
            /\ nsess' = nsess + 1
       ELSE /\ wk' = recycled
            /\ UNCHANGED <<pt, nsess>>

\* PooledTransport::write with a guard: the line reaches the worker's stdin.
PooledSession_write(t) ==
    LET w == pt[t].guard IN
    /\ w # NoChild
    /\ Len(wk[w].pending) + Len(wk[w].stdout) < MaxWorkerLines
    /\ wk' = [wk EXCEPT ![w].pending = Append(@, pt[t].session)]
    /\ UNCHANGED <<pt, idle_workers, delivered, nsess>>

\* The worker process answers the oldest request it has.
WorkerAnswers(c) ==
    /\ wk[c].status = "running"
    /\ wk[c].pending # <<>>
    /\ wk' = [wk EXCEPT ![c].pending = Tail(@),
                        ![c].stdout = Append(@, Head(wk[c].pending))]
    /\ UNCHANGED <<pt, idle_workers, delivered, nsess>>

\* One item of PooledTransport::read_messages: guard.read_line takes the next
\* line out of the worker's stdout and the stream yields it.
PooledSession_read(t) ==
    LET w == pt[t].guard IN
    /\ w # NoChild
    /\ wk[w].stdout # <<>>
    /\ wk' = [wk EXCEPT ![w].stdout = Tail(@)]
    /\ delivered' = delivered \cup {<<pt[t].session, Head(wk[w].stdout)>>}
    /\ UNCHANGED <<pt, idle_workers, nsess>>

\* PooledTransport::close: self.guard = None; impl Drop for WorkerGuard sends
\* the worker, as it is, back into the channel.
PooledSession_close(t) ==
    /\ pt[t].guard # NoChild
    /\ idle_workers' = Append(idle_workers, pt[t].guard)
    /\ pt' = [pt EXCEPT ![t].guard = NoChild, ![t].ready = FALSE]
    /\ UNCHANGED <<wk, delivered, nsess>>

SessionConnect(t) ==
    /\ \E reuse \in BOOLEAN : \E outcome \in {"ok", "process_error"} :
          PooledSession_connect(t, reuse, outcome)
    /\ UNCHANGED <<restvars, mpvars, latevars>>

SessionWrite(t) ==
    PooledSession_write(t) /\ UNCHANGED <<restvars, mpvars, latevars>>

SessionRead(t) ==
    PooledSession_read(t) /\ UNCHANGED <<restvars, mpvars, latevars>>

SessionClose(t) ==
    PooledSession_close(t) /\ UNCHANGED <<restvars, mpvars, latevars>>

WorkerResponds(c) ==
    WorkerAnswers(c) /\ UNCHANGED <<restvars, mpvars, latevars>>

SessionSpecInit == RestUnused /\ SessionsInit /\ ParserUnused /\ LateUnused

SessionNext ==
    \/ \E t \in Transports : SessionConnect(t)
    \/ \E t \in Transports : SessionWrite(t)
    \/ \E t \in Transports : SessionRead(t)
    \/ \E t \in Transports : SessionClose(t)
    \/ \E c \in ChildIds : WorkerResponds(c)

SessionSpec == SessionSpecInit /\ [][SessionNext]_vars

\* ------------------------------------------------------------ message parser
\* A line is the sequence of its JSON tokens: the punctuation, one token per
\* white space character and one per string literal (named by its content).

Punct == {"{", "}", ":", ",", " "}

Keys == {"type", "foo"}

Scalars == {"assistant", "user", "bar"}

\* The text between a key and its value: `:`, `: ` or ` :`.
Seps == {<<":">>, <<":", " ">>, <<" ", ":">>}

\* The documents the lines are made from: an object of up to MaxMembers
\* members whose values are strings or objects of one member.
DocValues == [t : {"str"}, k : {""}, s : Scalars] \cup [t : {"obj"}, k : Keys, s : Scalars]

DocMembers == [key : Keys, val : DocValues]

Docs == UNION {[1..n -> DocMembers] : n \in 1..MaxMembers}

RenderValue(v, sep) ==
    IF v.t = "str" THEN <<v.s>> ELSE <<"{", v.k>> \o sep \o <<v.s, "}">>

RECURSIVE RenderMembers(_, _)
RenderMembers(ms, sep) ==
    IF ms = <<>> THEN <<>>
    ELSE <<Head(ms).key>> \o sep \o RenderValue(Head(ms).val, sep)
         \o (IF Len(ms) > 1 THEN <<",">> ELSE <<>>)
         \o RenderMembers(Tail(ms), sep)

Render(doc, sep) == <<"{">> \o RenderMembers(doc, sep) \o <<"}">>

\* The line as it is, cut short of its last token, or with a brace too many.
Mangle(t, how) ==
    CASE how = "whole" -> t
      [] how = "cut"   -> SubSeq(t, 1, Len(t) - 1)
      [] how = "extra" -> Append(t, "}")

InputLines ==
    {Mangle(Render(doc, sep), how) :
        doc \in Docs, sep \in Seps, how \in {"whole", "cut", "extra"}}

\* serde_json's reader: white space is skipped between tokens.
RECURSIVE SkipWs(_, _)
SkipWs(t, i) == IF i <= Len(t) /\ t[i] = " " THEN SkipWs(t, i + 1) ELSE i

JsonStr(x) == [t |-> "str", s |-> x, members |-> <<>>]

JsonObj(ms) == [t |-> "obj", s |-> "", members |-> ms]

SyntaxError == [ok |-> FALSE, next |-> 0, val |-> JsonStr("")]

\* serde_json's reader: one value that starts at token i; an object is read
\* member by member, in the order of the text.
RECURSIVE ParseValue(_, _), ParseMembers(_, _, _)
ParseValue(t, i) ==
    IF i > Len(t) THEN SyntaxError
    ELSE IF t[i] = "{"
    THEN LET j == SkipWs(t, i + 1) IN
         IF j <= Len(t) /\ t[j] = "}"
         THEN [ok |-> TRUE, next |-> j + 1, val |-> JsonObj(<<>>)]
         ELSE ParseMembers(t, j, <<>>)
    ELSE IF t[i] \in Punct THEN SyntaxError
    ELSE [ok |-> TRUE, next |-> i + 1, val |-> JsonStr(t[i])]

ParseMembers(t, i, acc) ==
    IF i > Len(t) \/ t[i] \in Punct THEN SyntaxError
    ELSE LET c == SkipWs(t, i + 1) IN
         IF c > Len(t) \/ t[c] # ":" THEN SyntaxError
         ELSE LET v == ParseValue(t, SkipWs(t, c + 1)) IN
              IF ~v.ok THEN SyntaxError
              ELSE LET e == SkipWs(t, v.next)
                       more == Append(acc, [key |-> t[i], val |-> v.val])
                   IN
                   IF e > Len(t) THEN SyntaxError
                   ELSE IF t[e] = "}"
                   THEN [ok |-> TRUE, next |-> e + 1, val |-> JsonObj(more)]
                   ELSE IF t[e] = ","
                   THEN ParseMembers(t, SkipWs(t, e + 1), more)
                   ELSE SyntaxError

\* serde_json::from_str, the syntax: one value, then nothing but white space.
ParseJson(t) ==
    LET v == ParseValue(t, SkipWs(t, 1)) IN
    IF v.ok /\ SkipWs(t, v.next) > Len(t) THEN v ELSE SyntaxError

\* The members of an object with key k, in the order of the text.
MembersOf(v, k) == SelectSeq(v.members, LAMBDA m : m.key = k)

\* serde_json::from_str::<Value>: an object becomes a Map, in which a key
\* that occurs again replaces the earlier entry.
RECURSIVE ToValue(_)
ToValue(v) ==
    IF v.t = "str" THEN v
    ELSE LET keys == {v.members[i].key : i \in DOMAIN v.members} IN
         JsonObj([k \in keys |->
                    ToValue(MembersOf(v, k)[Len(MembersOf(v, k))].val)])

from_str_Value(json) ==
    LET v == ParseJson(json) IN
    IF v.ok THEN [ok |-> TRUE, val |-> ToValue(v.val)]
    ELSE [ok |-> FALSE, val |-> JsonStr("")]

\* The type tags of Message.
MessageTypes == {"assistant", "system", "result", "stream_event", "user", "control"}

Parsed(type) == [ok |-> TRUE, msg |-> type]

MessageParseError == [ok |-> FALSE, msg |-> "MessageParse"]

\* MessageParser::parse, serde_json::from_value::<Message>: an object with a
\* type tag that names a Message; members it does not know are ignored.
MessageParser_parse(data) ==
    IF /\ data.t = "obj"
       /\ "type" \in DOMAIN data.members
       /\ data.members["type"].t = "str"
       /\ data.members["type"].s \in MessageTypes
    THEN Parsed(data.members["type"].s)
    ELSE MessageParseError

\* ZeroCopyMessageParser::parse, serde_json::from_str::<Message>: the members
\* are visited in the order of the text and a type tag that occurs again is
\* the error "duplicate field"; members that are not known are skipped.
ZeroCopyMessageParser_parse(json) ==
    LET v == ParseJson(json) IN
    IF /\ v.ok
       /\ v.val.t = "obj"
       /\ Len(MembersOf(v.val, "type")) = 1
       /\ MembersOf(v.val, "type")[1].val.t = "str"
       /\ MembersOf(v.val, "type")[1].val.s \in MessageTypes
    THEN Parsed(MembersOf(v.val, "type")[1].val.s)
    ELSE MessageParseError

parse_with_mode(json, mode) ==
    IF mode = "Traditional"
    THEN LET value == from_str_Value(json) IN
         IF value.ok THEN MessageParser_parse(value.val) ELSE MessageParseError
    ELSE ZeroCopyMessageParser_parse(json)

\* str::contains
Contains(t, pat) ==
    \E i \in 1..(Len(t) - Len(pat) + 1) : SubSeq(t, i, i + Len(pat) - 1) = pat

\* trimmed.contains("type":"x") || trimmed.contains("type": "x"); trim()
\* takes white space off the ends, where neither pattern could begin or end.
HasTypeTag(t, x) ==
    Contains(t, <<"type", ":", x>>) \/ Contains(t, <<"type", ":", " ", x>>)

\* MessageKind::detect
MessageKind_detect(json) ==
    IF HasTypeTag(json, "assistant") THEN "Assistant"
    ELSE IF HasTypeTag(json, "system") THEN "System"
    ELSE IF HasTypeTag(json, "result") THEN "Result"
    ELSE IF HasTypeTag(json, "stream_event") THEN "StreamEvent"
    ELSE IF HasTypeTag(json, "user") THEN "User"
    ELSE IF HasTypeTag(json, "control") THEN "Control"
    ELSE "Unknown"

\* The MessageKind of each Message.
KindOf(type) ==
    CASE type = "assistant"    -> "Assistant"
      [] type = "system"       -> "System"
      [] type = "result"       -> "Result"
      [] type = "stream_event" -> "StreamEvent"
      [] type = "user"         -> "User"
      [] type = "control"      -> "Control"

ParserInit ==
    /\ line \in InputLines
    /\ parsed = [m \in ParsingModes |-> NotCalled]
    /\ detected = "not called"

ParseWithMode(mode) ==
    /\ parsed[mode] = NotCalled
    /\ parsed' = [parsed EXCEPT ![mode] = parse_with_mode(line, mode)]
    /\ UNCHANGED <<restvars, pwvars, latevars, line, detected>>

DetectKind ==
    /\ detected = "not called"
    /\ detected' = MessageKind_detect(line)
    /\ UNCHANGED <<restvars, pwvars, latevars, line, parsed>>

ParseSpecInit == RestUnused /\ SessionsInit /\ ParserInit /\ LateUnused

ParseNext ==
    \/ \E mode \in ParsingModes : ParseWithMode(mode)
    \/ DetectKind

ParseSpec == ParseSpecInit /\ [][ParseNext]_vars

\* ------------------------------------------------------------- ClaudeError
\* errors.rs: the variants of ClaudeError and the accessors that classify
\* them.  The payload of a variant (a message, a path, an exit code) takes no
\* part in any accessor but Display, which prints it after a fixed prefix.
ClaudeErrors ==
    {"Connection", "Process", "JsonDecode", "MessageParse", "Transport",
     "ControlProtocol", "InvalidConfig", "CliNotFound", "ImageValidation", "Io",
     "Other", "NotFound", "InvalidInput", "InternalError"}

ErrorCategories ==
    {"Network", "Process", "Parsing", "Configuration", "Validation", "Permission",
     "Resource", "Internal", "External"}

HttpStatuses ==
    {"BadRequest", "Unauthorized", "Forbidden", "NotFound", "RequestTimeout",
     "Conflict", "UnprocessableEntity", "TooManyRequests", "InternalServerError",
     "BadGateway", "ServiceUnavailable", "GatewayTimeout"}

\* A category without the process errors among the retryable ones.
ErrorCategory_is_retryable_no_process(c) == c \in {"Network", "External"}

\* ErrorCategory::is_retryable
ErrorCategory_is_retryable(c) == c \in {"Network", "External", "Process"}

\* HttpStatus::code
HttpStatus_code(s) ==
    CASE s = "BadRequest" -> 400
      [] s = "Unauthorized" -> 401
      [] s = "Forbidden" -> 403
      [] s = "NotFound" -> 404
      [] s = "RequestTimeout" -> 408
      [] s = "Conflict" -> 409
      [] s = "UnprocessableEntity" -> 422
      [] s = "TooManyRequests" -> 429
      [] s = "InternalServerError" -> 500
      [] s = "BadGateway" -> 502
      [] s = "ServiceUnavailable" -> 503
      [] s = "GatewayTimeout" -> 504

\* ClaudeError::category
category(e) ==
    CASE e = "Connection" -> "Network"
      [] e = "Process" -> "Process"
      [] e = "JsonDecode" -> "Parsing"
      [] e = "MessageParse" -> "Parsing"
      [] e = "Transport" -> "Network"
      [] e = "ControlProtocol" -> "Internal"
      [] e = "InvalidConfig" -> "Configuration"
      [] e = "CliNotFound" -> "Configuration"
      [] e = "ImageValidation" -> "Validation"
      [] e = "Io" -> "Internal"
      [] e = "Other" -> "Internal"
      [] e = "NotFound" -> "Resource"
      [] e = "InvalidInput" -> "Validation"
      [] e = "InternalError" -> "Internal"

\* ClaudeError::error_code
error_code(e) ==
    CASE e = "Connection" -> "ENET001"
      [] e = "Process" -> "EPROC001"
      [] e = "JsonDecode" -> "EPARSE001"
      [] e = "MessageParse" -> "EPARSE002"
      [] e = "Transport" -> "ENET002"
      [] e = "ControlProtocol" -> "EINT001"
      [] e = "InvalidConfig" -> "ECFG001"
      [] e = "CliNotFound" -> "ECFG002"
      [] e = "ImageValidation" -> "EVAL001"
      [] e = "Io" -> "EINT002"
      [] e = "Other" -> "EINT003"
      [] e = "NotFound" -> "ERES001"
      [] e = "InvalidInput" -> "EVAL002"
      [] e = "InternalError" -> "EINT004"

\* ClaudeError::is_retryable
is_retryable(e) == ErrorCategory_is_retryable(category(e))

\* ClaudeError::http_status
http_status(e) ==
    CASE e = "Connection" -> "ServiceUnavailable"
      [] e = "Process" -> "BadGateway"
      [] e = "JsonDecode" -> "UnprocessableEntity"
      [] e = "MessageParse" -> "UnprocessableEntity"
      [] e = "Transport" -> "ServiceUnavailable"
      [] e = "ControlProtocol" -> "InternalServerError"
      [] e = "InvalidConfig" -> "InternalServerError"
      [] e = "CliNotFound" -> "InternalServerError"
      [] e = "ImageValidation" -> "BadRequest"
      [] e = "Io" -> "InternalServerError"
      [] e = "Other" -> "InternalServerError"
      [] e = "NotFound" -> "NotFound"
      [] e = "InvalidInput" -> "BadRequest"
      [] e = "InternalError" -> "InternalServerError"

\* Display for ClaudeError (#[error(..)]): the prefix before the payload;
\* Other is transparent and prints its payload only.
to_string(e) ==
    CASE e = "Connection" -> "CLI connection error: "
      [] e = "Process" -> "Process error: "
      [] e = "JsonDecode" -> "JSON decode error: "
      [] e = "MessageParse" -> "Message parse error: "
      [] e = "Transport" -> "Transport error: "
      [] e = "ControlProtocol" -> "Control protocol error: "
      [] e = "InvalidConfig" -> "Invalid configuration: "
      [] e = "CliNotFound" -> "CLI not found: "
      [] e = "ImageValidation" -> "Image validation error: "
      [] e = "Io" -> "IO error: "
      [] e = "Other" -> ""
      [] e = "NotFound" -> "Not found: "
      [] e = "InvalidInput" -> "Invalid input: "
      [] e = "InternalError" -> "Internal error: "

\* ClaudeError::to_error_context
to_error_context(e) ==
    [code |-> error_code(e),
     category |-> category(e),
     message |-> to_string(e),
     retryable |-> is_retryable(e),
     http_status |-> HttpStatus_code(http_status(e))]

\* What the accessor a returns for the error e.
Answer(a, e) ==
    CASE a = "category" -> category(e)
      [] a = "error_code" -> error_code(e)
      [] a = "is_retryable" -> is_retryable(e)
      [] a = "http_status" -> http_status(e)
      [] a = "to_error_context" -> to_error_context(e)

ErrorsInit ==
    /\ err \in ClaudeErrors
    /\ answers = [a \in Accessors |-> <<>>]

\* The answers after a call of the accessor a.
Answered(a) == [answers EXCEPT ![a] = <<Answer(a, err)>>]

CallCategory ==
    /\ answers' = Answered("category")
    /\ UNCHANGED <<restvars, pwvars, mpvars, cvars, lvars, err>>

CallErrorCode ==
    /\ answers' = Answered("error_code")
    /\ UNCHANGED <<restvars, pwvars, mpvars, cvars, lvars, err>>

CallIsRetryable ==
    /\ answers' = Answered("is_retryable")
    /\ UNCHANGED <<restvars, pwvars, mpvars, cvars, lvars, err>>

CallHttpStatus ==
    /\ answers' = Answered("http_status")
    /\ UNCHANGED <<restvars, pwvars, mpvars, cvars, lvars, err>>

CallToErrorContext ==
    /\ answers' = Answered("to_error_context")
    /\ UNCHANGED <<restvars, pwvars, mpvars, cvars, lvars, err>>

ErrorSpecInit ==
    /\ RestUnused /\ SessionsInit /\ ParserUnused
    /\ ErrorsInit /\ CollectionInit /\ LruUnused

ErrorNext ==
    \/ CallCategory
    \/ CallErrorCode
    \/ CallIsRetryable
    \/ CallHttpStatus
    \/ CallToErrorContext

ErrorSpec == ErrorSpecInit /\ [][ErrorNext]_vars

\* ---------------------------------------------------------------- LruCache
\* skills/performance.rs: LruCache<K, V>, a HashMap and the Vec access_order
\* of its keys, the least recently used first.  A map is a function whose
\* domain is the set of its keys.
MapInsert(m, k, v) == [x \in DOMAIN m \cup {k} |-> IF x = k THEN v ELSE m[x]]

MapRemove(m, k) == [x \in DOMAIN m \ {k} |-> m[x]]

\* access_order.iter().position(|k| k == key): the first index, 0 for None.
Position(order, key) ==
    IF \E i \in DOMAIN order : order[i] = key
    THEN CHOOSE i \in DOMAIN order :
             order[i] = key /\ \A j \in 1..(i - 1) : order[j] # key
    ELSE 0

\* Vec::remove(pos)
RemoveAt(order, pos) == SubSeq(order, 1, pos - 1) \o SubSeq(order, pos + 1, Len(order))

\* LruCache::get: the cache after the call and the Option it returns.
LruCache_get(c, key) ==
    IF key \in DOMAIN c.map
    THEN LET pos == Position(c.access_order, key)
         IN  [cache |-> IF pos # 0
                        THEN [c EXCEPT !.access_order =
                                  Append(RemoveAt(c.access_order, pos), key)]
                        ELSE c,
              value |-> <<c.map[key]>>]
    ELSE [cache |-> c, value |-> <<>>]

\* LruCache::put
LruCache_put(c, key, value) ==
    LET pos == Position(c.access_order, key)
        order1 == IF key \in DOMAIN c.map /\ pos # 0
                  THEN RemoveAt(c.access_order, pos)
                  ELSE c.access_order
        evict == Len(order1) >= c.capacity /\ order1 # <<>>
        map2 == IF evict THEN MapRemove(c.map, order1[1]) ELSE c.map
        order2 == IF evict THEN Tail(order1) ELSE order1
    IN  [c EXCEPT !.map = MapInsert(map2, key, value),
                  !.access_order = Append(order2, key)]

LruKeys == {"key1", "key2", "key3"}
LruValues == {"value1", "value2"}

\* The keys of q without k, in the order of q.
Without(q, k) == SelectSeq(q, LAMBDA x : x # k)

\* The key of the map that was used least recently, if the map has a key.
LeastRecent(c, used) ==
    LET held == SelectSeq(used, LAMBDA x : x \in DOMAIN c.map)
    IN  IF held = <<>> THEN <<>> ELSE <<held[1]>>

\* What held when put or get was called with the key.
Before(op, key) ==
    [op |-> op, key |-> key,
     present |-> key \in DOMAIN cache.map,
     full |-> Cardinality(DOMAIN cache.map) >= cache.capacity,
     lru |-> LeastRecent(cache, recent)]

LruInit ==
    /\ \E capacity \in 0..MaxCapacity : cache = LruCache_new(capacity)
    /\ recent = <<>>
    /\ lop = NoLruCall
    /\ evicted = {}

LruPut(key, value) ==
    /\ cache' = LruCache_put(cache, key, value)
    /\ recent' = Append(Without(recent, key), key)
    /\ lop' = Before("put", key)
    /\ evicted' = DOMAIN cache.map \ DOMAIN cache'.map
    /\ UNCHANGED <<restvars, pwvars, mpvars, evars, cvars>>

LruGet(key) ==
    /\ cache' = LruCache_get(cache, key).cache
    /\ recent' = IF LruCache_get(cache, key).value # <<>>
                 THEN Append(Without(recent, key), key)
                 ELSE recent
    /\ lop' = Before("get", key)
    /\ evicted' = DOMAIN cache.map \ DOMAIN cache'.map
    /\ UNCHANGED <<restvars, pwvars, mpvars, evars, cvars>>

LruSpecInit ==
    /\ RestUnused /\ SessionsInit /\ ParserUnused
    /\ ErrorsUnused /\ CollectionInit /\ LruInit

LruNext ==
    \/ \E key \in LruKeys, value \in LruValues : LruPut(key, value)
    \/ \E key \in LruKeys : LruGet(key)

LruSpec == LruSpecInit /\ [][LruNext]_vars

\* -------------------------------------------------- IndexedSkillCollection
\* skills/tags.rs, skills/performance.rs: skills with a name and tags, the
\* indexes by name and by tag, and query() with its cache of results.  An
\* index into skills counts from 0, as in the code.
Tags == {"rust", "web"}
SkillNames == {"skill1", "skill2"}
SkillPackages == [name : SkillNames, tags : SUBSET Tags]

\* TagFilter::new() and its builders has, not_has, any_of, all_of, none_of.
TagFilter_new == <<>>
TagFilter_with(filter, kind, tags) == Append(filter, [kind |-> kind, tags |-> tags])

TagFilters ==
    {TagFilter_with(TagFilter_new, "Has", <<"rust">>),
     TagFilter_with(TagFilter_new, "AnyOf", <<"rust", "web">>),
     TagFilter_with(TagFilter_with(TagFilter_new, "NotHas", <<"rust">>),
                    "NoneOf", <<"web">>)}

\* TagFilter::matches_operator
matches_operator(op, item_tags) ==
    CASE op.kind = "Has" -> op.tags[1] \in item_tags
      [] op.kind = "NotHas" -> op.tags[1] \notin item_tags
      [] op.kind = "AnyOf" -> \E i \in DOMAIN op.tags : op.tags[i] \in item_tags
      [] op.kind = "AllOf" -> \A i \in DOMAIN op.tags : op.tags[i] \in item_tags
      [] op.kind = "NoneOf" -> \A i \in DOMAIN op.tags : op.tags[i] \notin item_tags

\* TagFilter::matches
TagFilter_matches(filter, item_tags) ==
    \A i \in DOMAIN filter : matches_operator(filter[i], item_tags)

\* format!("{:?}", op) of the derived Debug: the variant and its tags.
RECURSIVE DebugOperators(_)
DebugOperators(ops) ==
    IF ops = <<>> THEN <<>>
    ELSE <<ops[1].kind, "(">> \o ops[1].tags \o <<")">> \o DebugOperators(Tail(ops))

\* format!("{:?}", filter): the cache key of a query.
DebugFilter(filter) ==
    <<"TagFilter", "{", "operators", ":", "[">> \o DebugOperators(filter) \o <<"]", "}">>

\* The indices of the skills whose tags match the filter, ascending.
MatchingIndices(sk, filter) ==
    SelectSeq([i \in 1..Len(sk) |-> i - 1],
              LAMBDA i : TagFilter_matches(filter, sk[i + 1].tags))

\* by_tag after the index was pushed under every tag of the skill.
IndexTags(index_of, tags, index) ==
    [t \in DOMAIN index_of \cup tags |->
        IF t \in tags
        THEN Append(IF t \in DOMAIN index_of THEN index_of[t] ELSE <<>>, index)
        ELSE index_of[t]]

\* IndexedSkillCollection::add.  The result of an earlier query borrows the
\* collection and is gone before add can be called.
IndexedSkillCollection_add(skill) ==
    LET index == Len(skills)
    IN  /\ by_name' = MapInsert(by_name, skill.name, index)
        /\ by_tag' = IndexTags(by_tag, skill.tags, index)
        /\ skills' = Append(skills, skill)
        /\ found' = NoQuery
        /\ UNCHANGED query_cache

\* IndexedSkillCollection::query
IndexedSkillCollection_query(filter) ==
    LET cache_key == DebugFilter(filter)
        hit == LruCache_get(query_cache, cache_key)
        indices == MatchingIndices(skills, filter)
    IN  /\ IF hit.value # <<>>
           THEN /\ query_cache' = hit.cache
                /\ found' = [filter |-> filter, indices |-> hit.value[1],
                             asked |-> TRUE]
           ELSE /\ query_cache' = LruCache_put(hit.cache, cache_key, indices)
                /\ found' = [filter |-> filter, indices |-> indices, asked |-> TRUE]
        /\ UNCHANGED <<skills, by_name, by_tag>>

CollectionAdd(skill) ==
    /\ Len(skills) < MaxSkills
    /\ IndexedSkillCollection_add(skill)
    /\ UNCHANGED <<restvars, pwvars, mpvars, evars, lvars>>

CollectionQuery(filter) ==
    /\ IndexedSkillCollection_query(filter)
    /\ UNCHANGED <<restvars, pwvars, mpvars, evars, lvars>>

CollectionSpecInit ==
    /\ RestUnused /\ SessionsInit /\ ParserUnused
    /\ ErrorsUnused /\ CollectionInit /\ LruUnused

CollectionNext ==
    \/ \E skill \in SkillPackages : CollectionAdd(skill)
    \/ \E filter \in TagFilters : CollectionQuery(filter)

CollectionSpec == CollectionSpecInit /\ [][CollectionNext]_vars

\* ------------------------------------------------------------- properties

\* Clients that own a WorkerGuard.
Holders == {p \in Clients : pc[p] = "holding"}

\* A worker object that exists (not yet dropped).
Exists(w) == workers[w].process \in {"running", "exited"}

\* C1: with max_size = N at most N guards exist at a time, and while N guards
\* exist no other acquire() is past the permit: it has not returned and cannot
\* return until a guard is dropped.
C1_AtMostMaxSizeGuards ==
    /\ Cardinality(Holders) <= config.max_size
    /\ Cardinality(Holders) = config.max_size =>
          /\ permits = 0
          /\ \A p \in Clients : pc[p] \notin {"permit", "create"}

C1_Witness ==
    /\ Cardinality(Holders) = config.max_size
    /\ \E p \in Clients : pc[p] = "waiting"

C3_Pool ==
    /\ config.min_size = 1 /\ config.max_size = 1
    /\ initpc = "done"
    /\ state.total_created = 1

\* C3: in that pool, a dropped guard puts its worker back into the pool
\* unchanged; and while the worker's process runs and it is within its idle
\* timeout, an acquire() issued while no other client is active gets its permit
\* at once (so it cannot time out), and the acquire that holds the permit
\* returns a guard for that same worker without spawning.
C3_SameWorkerReused ==
    [][\A p \in Clients :
         (C3_Pool /\ pc'[p] # pc[p]) =>
             /\ pc[p] = "holding" =>
                    /\ return_chan' = <<guard[p]>>
                    /\ workers' = workers
             /\ (pc[p] = "idle" /\ \A q \in Clients \ {p} : pc[q] = "idle")
                    => pc'[p] = "permit"
             /\ ( /\ pc[p] = "permit"
                  /\ \A w \in WorkerIds :
                        /\ workers[w].process \in {"absent", "running"}
                        /\ workers[w].idle_secs <= config.idle_timeout ) =>
                    /\ pc'[p] = "holding"
                    /\ result'[p] = "none"
                    /\ workers[guard'[p]].process = "running"
                    /\ \A w \in WorkerIds : Exists(w) => w = guard'[p]
                    /\ workers' = workers
                    /\ state' = state
                    /\ next_worker_id' = next_worker_id]_vars

C3_Witness ==
    /\ C3_Pool
    /\ \E p \in Clients :
          /\ pc[p] = "holding"
          /\ workers[guard[p]].process = "running"
          /\ \A q \in Clients : result[q] = "none"

\* The idle workers that pass the reuse test of acquire().
Reusable == {w \in Range(return_chan) :
                is_healthy(w) /\ ~is_idle_timeout(w, config.idle_timeout)}

\* C4: the acquire() that takes from the pool returns a recycled idle worker
\* whenever some idle worker is healthy and within its idle timeout, and goes
\* on to spawn only when there is none.
C4_RecycleWheneverAvailable ==
    [][\A p \in Clients :
         (pc[p] = "permit" /\ pc'[p] # "permit") =>
            /\ Reusable # {} => (pc'[p] = "holding" /\ guard'[p] \in Reusable)
            /\ pc'[p] = "create" => Reusable = {}]_vars

\* C5: a worker whose time since last activity exceeds idle_timeout when it is
\* taken from the pool is never put into a guard: it is dropped, its process
\* killed, and the guard that this acquire() goes on to return holds a worker
\* spawned just then.
C5_StaleNeverHandedOut ==
    [][\A p \in Clients :
         /\ ( /\ pc[p] = "permit" /\ pc'[p] # "permit"
              /\ return_chan # <<>>
              /\ workers[Head(return_chan)].idle_secs > config.idle_timeout ) =>
                 LET w == Head(return_chan) IN
                 /\ pc'[p] = "create"
                 /\ guard'[p] = NoWorker
                 /\ w \notin Range(return_chan')
                 /\ \A q \in Clients : guard'[q] # w
                 /\ workers'[w].process = "killed"
         /\ (pc[p] = "create" /\ pc'[p] = "holding") =>
                 /\ workers[guard'[p]].process = "absent"
                 /\ workers'[guard'[p]] = NewWorker]_vars

\* Without initialize() the channel is never full, so the killed worker was
\* dropped by the reuse test of an acquire().
C5_Witness ==
    /\ initpc = "new"
    /\ \E p \in Clients : \E w \in WorkerIds :
          /\ workers[w].process = "killed"
          /\ pc[p] = "holding"
          /\ guard[p] > w

\* C6: an idle worker whose process has stopped running while it sat in the
\* pool is never put into a guard: the acquire() that takes it drops it and
\* goes on to spawn.
C6_ExitedNeverHandedOut ==
    [][\A p \in Clients :
         ( /\ pc[p] = "permit" /\ pc'[p] # "permit"
           /\ return_chan # <<>>
           /\ workers[Head(return_chan)].process = "exited" ) =>
              /\ pc'[p] = "create"
              /\ guard'[p] # Head(return_chan)]_vars

\* The pool state an acquire() may change.
PoolVars == <<return_chan, permits, state, next_worker_id, workers, guard>>

\* C7: an acquire() that ends with the timeout error has changed nothing of
\* the pool: neither its step into the semaphore queue nor its timeout changes
\* the idle workers, the permits, the counters, the workers or any guard, and
\* afterwards it holds no worker and is no longer queued for a permit.
C7_TimeoutChangesNothing ==
    [][\A p \in Clients :
         /\ (pc[p] = "idle" /\ pc'[p] = "waiting") => UNCHANGED PoolVars
         /\ (pc[p] = "waiting" /\ pc'[p] = "idle") =>
               /\ result'[p] = "timeout"
               /\ UNCHANGED PoolVars
               /\ guard'[p] = NoWorker
               /\ p \notin Range(waitq')
               /\ \A q \in Clients \ {p} : (q \in Range(waitq')) = (q \in Range(waitq))]_vars

C7_Witness ==
    \E p \in Clients :
        /\ pc[p] = "idle" /\ result[p] = "timeout"
        /\ permits = 0
        /\ waitq = <<>>

\* C8: a guard can always be dropped (the drop does not wait for channel
\* space), and dropping it releases its permit and leaves its worker either
\* appended to the return channel, untouched, or, the channel being full,
\* destroyed with its process killed.
C8_DropReleases ==
    /\ [](\A p \in Clients : pc[p] = "holding" => ENABLED GuardDrop(p))
    /\ [][\A p \in Clients :
            (pc[p] = "holding" /\ pc'[p] # "holding") =>
               LET w == guard[p] IN
               /\ permits' = permits + 1
               /\ guard'[p] = NoWorker
               /\ \/ /\ return_chan' = Append(return_chan, w)
                     /\ workers' = workers
                  \/ /\ return_chan' = return_chan
                     /\ Len(return_chan) = config.max_size
                     /\ workers'[w].process = "killed"]_vars

\* Without initialize() every idle worker was put into the channel by a
\* dropped guard.
C8_Witness ==
    /\ initpc = "new"
    /\ permits = config.max_size
    /\ return_chan # <<>>

\* Number of places (channel slots and guards) that hold worker w.
Places(w) == Cardinality({i \in DOMAIN return_chan : return_chan[i] = w})
             + Cardinality({p \in Clients : guard[p] = w})

\* C9: every existing worker is in exactly one place, a slot of the return
\* channel or the guard of one client; a dropped worker is nowhere; a client
\* has a worker in its guard exactly while it holds the guard.
C9_OnePlacePerWorker ==
    /\ \A w \in WorkerIds : Places(w) = IF Exists(w) THEN 1 ELSE 0
    /\ \A p \in Clients : (guard[p] # NoWorker) = (pc[p] = "holding")

C9_Witness ==
    /\ return_chan # <<>>
    /\ \E p \in Clients : pc[p] = "holding" /\ guard[p] \notin Range(return_chan)

\* C10: once initialize() has returned Ok on a new pool, no acquire() having
\* spawned anything or holding anything, exactly min_size workers have been
\* spawned and all of them are idle in the pool.
C10_InitializeDepositsMinSize ==
    ( /\ initpc = "done"
      /\ next_worker_id = init_i
      /\ \A p \in Clients : pc[p] = "idle" ) =>
        /\ state.total_created = config.min_size
        /\ Len(return_chan) = config.min_size
        /\ \A w \in WorkerIds : workers[w].process # "absent" => w \in Range(return_chan)

\* C11: stats().active_count is the number of workers that exist now (idle or
\* checked out; destroyed workers are not counted), and stats().total_created
\* is the number of workers ever spawned.
C11_ActiveCountIsLiveWorkers ==
    /\ state.active_count = Cardinality({w \in WorkerIds : Exists(w)})
    /\ state.total_created =
          Cardinality({w \in WorkerIds : workers[w].process # "absent"})

\* C12: every error with which acquire() returns because a worker process
\* could not be started is of another kind than its timeout error.
C12_TimeoutKindDiffersFromSpawnKind ==
    [][\A p \in Clients :
         (pc[p] = "create" /\ pc'[p] = "idle") =>
            ErrorKind(result'[p]) # ErrorKind("timeout")]_vars

\* C13: when shutdown_global_pool() completes, every worker that was idle in
\* the global pool has been dropped and its process killed.
C13_ShutdownKillsIdleWorkers ==
    [][(POOL # NoPool /\ POOL' = NoPool) =>
          \A c \in Range(pools[POOL].return_chan) : children'[c] = "killed"]_vars

\* C15: the connect() of a PooledTransport takes its worker from the global
\* pool, and its close() puts the worker back into the global pool (or, that
\* pool's channel being full, destroys it), where the connect() of another
\* PooledTransport finds it.
C15_TransportsShareGlobalPool ==
    [][\A t \in Transports :
         /\ (transports[t].guard = NoChild /\ transports'[t].guard # NoChild) =>
                /\ POOL # NoPool
                /\ transports[t].pool = POOL
         /\ ( /\ transports[t].guard # NoChild
              /\ transports'[t].status = "live"
              /\ transports'[t].guard = NoChild ) =>
                /\ POOL # NoPool
                /\ \/ transports[t].guard \in Range(pools'[POOL].return_chan)
                   \/ Len(pools[POOL].return_chan) = pools[POOL].max_size]_vars

\* Nothing has gone wrong outside the transports: no process has exited on its
\* own or with a failure code.
BenignEnvironment ==
    /\ \A p \in ProcIds :
          \/ procs[p].status \in {"absent", "running"}
          \/ procs[p].waited /\ procs[p].code = 0
    /\ \A c \in ChildIds : children[c] # "exited"

\* C14: given the same calls of connect, write, end_input and close in the
\* same environment, a PooledTransport (its pool enabled) and a
\* SubprocessTransport in streaming mode report success for the same calls
\* and failure for the same calls.
C14_PoolingIsTransparent ==
    ( /\ st.status = "built" /\ st.prompt = "Streaming" /\ ~st.stdin_arc.some
      /\ transports[PT].status = "live" /\ pools[transports[PT].pool].enabled
      /\ sres.op \in {"connect", "write", "end_input", "close"}
      /\ BenignEnvironment ) =>
        ((sres.kind = "Ok") <=> (pres[PT] = "Ok"))

\* The SubprocessTransport holds no handle of a process: it was closed and not
\* connected again (or never connected).
SubprocessClosed ==
    /\ st.stdin = NoProc
    /\ st.stdin_arc.stdin = NoProc
    /\ st.process = NoProc

\* The PooledTransport holds no guard.
PooledClosed == transports[PT].guard = NoChild

\* C16: close() leaves either transport without any handle to write to (the
\* SubprocessTransport neither with its direct stdin nor with one in the
\* shared cell, the PooledTransport without guard), and a write() on a
\* transport in that condition fails with the Transport error.
C16_WriteAfterCloseFails ==
    /\ sres.op = "close" => (SubprocessClosed /\ PooledClosed)
    /\ (sres.op = "write" /\ SubprocessClosed) => sres.kind = "Transport"
    /\ (sres.op = "write" /\ transports[PT].status = "live" /\ PooledClosed) =>
           pres[PT] = "Transport"

C16_Witness ==
    /\ sres = Res("write", "Transport", 0)
    /\ SubprocessClosed /\ st.stdin_arc.some
    /\ \E p \in ProcIds : procs[p].waited
    /\ transports[PT].status = "live" /\ PooledClosed
    /\ pres[PT] = "Transport"
    /\ \E c \in ChildIds : children[c] = "running"

C19_ExitStatusOnlyAtClose ==
    /\ [](sres.op \in {"write", "end_input", "read", "take_stdin_arc"} =>
             sres.kind # "Process" /\ sres.code = 0)
    /\ [][(st.process # NoProc /\ st'.process = NoProc) =>
            LET p == st.process IN
            /\ procs'[p].waited
            /\ procs[p].status = "exited" => procs'[p].code = procs[p].code
            /\ sres' = IF procs'[p].code # 0
                       THEN Res("close", "Process", procs'[p].code)
                       ELSE Res("close", "Ok", 0)]_vars
    /\ [][( /\ st.stdout # NoProc
            /\ procs[st.stdout].status = "exited"
            /\ procs[st.stdout].lines = 0
            /\ SubprocessTransport_read ) => sres' = Res("read", "End", 0)]_vars

C19_Witness ==
    /\ sres = Res("close", "Process", 1)
    /\ \E p \in ProcIds : procs[p].waited /\ procs[p].code = 1

\* C20: end_input() on a connected SubprocessTransport returns Ok and changes
\* nothing but the write half: the process is neither killed nor waited for,
\* ready and stdout are as before (so the read streams go on); and the
\* write() that follows it fails with the Transport error.
C20_EndInputClosesOnlyWriteHalf ==
    /\ [][(st.process # NoProc /\ SubprocessTransport_end_input) =>
            /\ sres' = Res("end_input", "Ok", 0)
            /\ procs' = procs
            /\ st'.ready = st.ready
            /\ st'.stdout = st.stdout
            /\ st'.process = st.process]_vars
    /\ [][(st.process # NoProc /\ sres.op = "end_input" /\ sres'.op = "write") =>
            sres'.kind = "Transport"]_vars

\* The item the stream has just yielded, if this step yielded one.
YieldedNow(kind) ==
    /\ Len(yielded') = Len(yielded) + 1
    /\ yielded'[Len(yielded')].kind = kind

\* C21: in a read_messages() stream the decode error is the last item: no
\* item follows it.
C21_NoItemAfterDecodeError ==
    (stream.status # "none" /\ ~stream.raw) =>
        \A i \in 1..Len(yielded) :
            yielded[i].kind = "JsonDecode" => i = Len(yielded)

\* C22: a stream of either kind yields the size-exceeded error for a line
\* that read_line delivered exactly when the byte length of that line is
\* above max_message_size, whatever was read before; the error is the last
\* item and the stream has ended with it, and an ended stream yields nothing.
C22_SizeExceededPerLine ==
    /\ [][(stream.status = "open" /\ rpos' = rpos + 1
              /\ IsUtf8(out[rpos + 1].text)) =>
            ( out[rpos + 1].len > buffer_config.max_message_size
              <=> YieldedNow("SizeExceeded") )]_vars
    /\ [](\A i \in 1..Len(yielded) :
             yielded[i].kind = "SizeExceeded" =>
                 i = Len(yielded) /\ stream.status = "ended")
    /\ [][stream.status = "ended" =>
            stream'.status # "open" /\ (yielded' = yielded \/ yielded' = <<>>)]_vars

C22_Witness ==
    /\ Len(yielded) = 2
    /\ yielded[1].kind = "Ok" /\ yielded[2].kind = "SizeExceeded"
    /\ stream.status = "ended"
    /\ out[1].len < out[2].len

\* C23: the capacity a stream tracks is never above max_message_size.
C23_CapacityWithinCeiling ==
    stream.status # "none" =>
        stream.current_capacity <= buffer_config.max_message_size

\* C24 as stated: resize_count is the number of accepted lines that were
\* longer than the capacity of the moment.
C24_ResizeCountIsInsufficientCount == buffer_metrics.resize_count = due

\* C24 amended: with enable_metrics set (and no reset of the metrics)
\* resize_count is the number of accepted lines longer than the capacity of
\* the moment, and each of them multiplies the capacity by growth_factor,
\* clamped to max_message_size; a line rejected as too long changes neither
\* the metrics nor the capacity.  With enable_metrics unset nothing is
\* counted and the capacity stays at initial_size.
C24_ResizeCountWithMetrics ==
    /\ [](buffer_config.enable_metrics => buffer_metrics.resize_count = due)
    /\ [](~buffer_config.enable_metrics =>
             /\ buffer_metrics = NewMetrics
             /\ stream.status # "none" =>
                   stream.current_capacity = buffer_config.initial_size)
    /\ [][(buffer_config.enable_metrics /\ due' = due + 1) =>
            LET grown == (stream.current_capacity * buffer_config.growth_factor[1])
                            \div buffer_config.growth_factor[2]
            IN stream'.current_capacity =
                  IF grown < buffer_config.max_message_size
                  THEN grown ELSE buffer_config.max_message_size]_vars
    /\ [][YieldedNow("SizeExceeded") =>
            /\ buffer_metrics' = buffer_metrics
            /\ due' = due
            /\ stream'.current_capacity = stream.current_capacity]_vars

C24_Witness ==
    /\ buffer_config.enable_metrics
    /\ buffer_metrics.resize_count = 2
    /\ stream.status = "open"
    /\ stream.current_capacity = buffer_config.max_message_size
    /\ 2 * buffer_config.initial_size < buffer_config.max_message_size

\* The text of a line without its terminator and surrounding blanks.
LineContent(t) == CASE t = "{} " -> "{}" [] t = "x " -> "x" [] OTHER -> ""

\* The items that lines ls (the lines n+1, n+2, ... of the output) are to
\* give in a raw stream: one per non-blank line, in order, up to the first
\* line that cannot be read or is too long.
RECURSIVE RawItems(_, _)
RawItems(ls, n) ==
    IF ls = <<>> THEN <<>>
    ELSE LET l == Head(ls) IN
         IF l.text = "0xff " THEN <<Item("ReadFailed", n + 1, "")>>
         ELSE IF l.len > buffer_config.max_message_size
         THEN <<Item("SizeExceeded", n + 1, "")>>
         ELSE IF l.text = " " THEN RawItems(Tail(ls), n + 1)
         ELSE <<Item("Ok", n + 1, LineContent(l.text))>> \o RawItems(Tail(ls), n + 1)

\* The lines the current stream has taken from stdout.
Consumed == SubSeq(out, stream.first + 1, rpos)

C30_DroppedStreamLosesNothing ==
    /\ [][(stream.status # "none" /\ stream'.status = "none") =>
            conn' = conn /\ rpos' = rpos /\ out' = out]_vars
    /\ [](part # "lost" /\ \A i \in 1..Len(out) : ~out[i].torn)

\* C25: as long as reset() has not been called, peak_size never decreases,
\* is never above the largest size passed to update_peak so far, and is that
\* largest size as soon as the call that passed it has returned, however the
\* callers interleave.
C25_PeakIsLargestSize ==
    /\ [][~was_reset' => peak_size' >= peak_size]_vars
    /\ [](~was_reset =>
             /\ peak_size <= largest
             /\ peak_size < largest =>
                   \E u \in Updaters : upd[u].pc = "loop" /\ upd[u].size = largest)

C25_Witness ==
    /\ ~was_reset
    /\ \E u \in Updaters :
          /\ upd[u].pc = "loop"
          /\ upd[u].current < peak_size
          /\ peak_size < upd[u].size

\* C27: what the process receives from the transport is, write after write
\* in the order of the calls, the payload directly followed by its newline:
\* nothing of another writer lies between the two; and the transport holds
\* the lock of the shared stdin only inside one write() that goes through it,
\* from the payload to the return.
C27_WritesAreOrderedAndWhole ==
    /\ \A i \in 1..Len(stdin_pipe) :
          LET c == stdin_pipe[i] IN
          c.who = "transport" =>
             /\ c.kind = "data" =>
                   \/ i = Len(stdin_pipe) /\ call.pc = "nl" /\ call.n = c.n
                   \/ i < Len(stdin_pipe)
                        /\ stdin_pipe[i + 1] = Chunk("transport", "nl", c.n)
             /\ c.kind = "nl" =>
                   i > 1 /\ stdin_pipe[i - 1] = Chunk("transport", "data", c.n)
             /\ \A j \in 1..(i - 1) :
                   stdin_pipe[j].who = "transport" => stdin_pipe[j].n <= c.n
    /\ lock = "transport" <=>
          (call.op = "write" /\ call.via = "shared"
              /\ call.pc \in {"data", "nl", "flush"})

C27_Witness ==
    /\ call.op = "write" /\ call.via = "shared" /\ call.pc = "flush"
    /\ Len(stdin_pipe) = 5
    /\ stdin_pipe[1].who = "transport" /\ stdin_pipe[3].who = "control"
    /\ stdin_pipe[5] = Chunk("transport", "nl", 2)

\* The step on which connect() returns Ok.
ConnectReturnsOk ==
    /\ wres' = WRes("connect", "Ok")
    /\ call' = NoCall
    /\ call.op = "connect" \/ wt.process # wt'.process

\* C29: when connect() returns Ok, a transport with a Text or Content prompt
\* has written exactly one line (payload and newline) and has no stdin left,
\* direct or shared, and every write() on it fails with the Transport error;
\* a transport with the Streaming prompt has written nothing and holds its
\* stdin, and a write() on it succeeds while that stdin, direct or shared, is
\* open.
C29_PromptSentAtConnect ==
    /\ [][ConnectReturnsOk =>
            IF wt.prompt \in {"Text", "Content"}
            THEN /\ stdin_pipe' = <<Chunk("transport", "data", 1),
                                    Chunk("transport", "nl", 1)>>
                 /\ wt'.stdin = "none" /\ wt'.stdin_arc = "none"
            ELSE /\ stdin_pipe' = <<>>
                 /\ wt'.stdin = "open"]_vars
    /\ [][(wt.prompt \in {"Text", "Content"} /\ wt.ready
             /\ wt.stdin = "none" /\ wt.stdin_arc = "none") =>
            /\ wt'.stdin = "none" /\ wt'.stdin_arc = "none"
            /\ (wres'.op = "write" /\ wres' # wres) => wres'.kind = "Transport"]_vars
    /\ [][(wt.prompt = "Streaming" /\ wt.ready /\ wres'.op = "write" /\ wres' # wres
             /\ (wt.stdin = "open" \/ wt.stdin_arc = "open")) =>
            wres'.kind = "Ok"]_vars

C29_Witness ==
    /\ wt.prompt = "Text" /\ wt.ready
    /\ wres = WRes("write", "Transport")
    /\ stdin_pipe = <<Chunk("transport", "data", 1), Chunk("transport", "nl", 1)>>

\* The write half sits in the shared handle only, it has not been shut down,
\* and the process that reads it runs.
SharedStdinOpen ==
    /\ st.stdin = NoProc
    /\ st.stdin_arc.some
    /\ st.stdin_arc.stdin # NoProc
    /\ procs[st.stdin_arc.stdin].status = "running"

LiveWorkers ==
    Len(return_chan)
      + Cardinality({p \in Clients : pc[p] = "holding"})
      + Cardinality({p \in Clients : pc[p] = "create"})

\* C34: in a pool with min_size <= max_size that is initialized at most once
\* and before its first acquire, the workers that are idle, checked out or
\* being spawned never number more than max_size, and whenever a guard is
\* dropped the return channel has room for its worker.
C34_LiveWorkersWithinMaxSize ==
    /\ [](LiveWorkers <= config.max_size)
    /\ [][\A p \in Clients : GuardDrop(p) =>
            /\ try_send_ok(return_chan)
            /\ return_chan' = Append(return_chan, guard[p])]_vars

C34_Witness ==
    /\ initpc = "done" /\ config.min_size = config.max_size
    /\ state.total_created > config.min_size
    /\ LiveWorkers = config.max_size
    /\ Len(return_chan) = config.max_size
    /\ \E w \in WorkerIds : workers[w].process = "killed"

\* The acquires that hold a permit: between acquire_owned() and the return
\* of the error, or until the guard is dropped.
PermitHolders == {p \in Clients : pc[p] \in {"permit", "create", "holding"}}

\* C38: an acquire() that ends in create_worker with an error gives its
\* permit back and leaves total_created and active_count as they were; the
\* permits that are free and the permits held by acquires under way and by
\* guards always add up to max_size, however many acquires have failed.
C38_FailedSpawnReleasesPermit ==
    /\ [][\A p \in Clients :
            (pc[p] = "create" /\ pc'[p] = "idle") =>
               /\ result'[p] \in {"connection_error", "process_error"}
               /\ permits' = permits + 1
               /\ state' = state]_vars
    /\ [](permits + Cardinality(PermitHolders) = config.max_size)

C38_Witness ==
    /\ \A p \in Clients : pc[p] = "idle" /\ result[p] = "process_error"
    /\ next_worker_id = MaxWorkers
    /\ state.total_created = 0
    /\ permits = config.max_size

\* C36: every process the SubprocessTransport has spawned and that still runs
\* is the one process the transport holds; a process it no longer holds has
\* been waited for (close) or killed (drop), or has exited by itself.
C36_AtMostOneOwnedProcess ==
    \A p \in ProcIds :
        procs[p].status = "running" => (st.status = "built" /\ st.process = p)

\* C37: is_ready() is true exactly when the transport holds a spawned
\* process that close() has not taken; after close() has returned, with Ok or
\* with the Process error, is_ready() is false.
C37_ReadyIffProcessHeld ==
    st.status = "built" =>
        /\ st.ready <=> st.process # NoProc
        /\ sres.op = "close" => ~st.ready

\* C35: every line that read_messages() delivers in a session of a
\* PooledTransport stems from a write() of that same session.
C35_NoOutputAcrossSessions ==
    \A d \in delivered : d[1] = d[2]

\* C31: for every line, parse_with_mode in Traditional mode and in ZeroCopy
\* mode either both fail or both return the same message.
C31_ModesAgree ==
    (parsed["Traditional"] # NotCalled /\ parsed["ZeroCopy"] # NotCalled) =>
        parsed["Traditional"] = parsed["ZeroCopy"]

\* C32: when full decoding of the line succeeds, in either mode,
\* MessageKind::detect returns the kind of the decoded message; for a line
\* in which no "type" occurs it returns Unknown.
C32_DetectAgreesWithDecoding ==
    detected # "not called" =>
        /\ \A m \in ParsingModes :
               parsed[m].ok => detected = KindOf(parsed[m].msg)
        /\ (\A i \in DOMAIN line : line[i] # "type") => detected = "Unknown"

\* C33: every ClaudeError variant has one category of the closed set, one
\* error code and one status code; is_retryable() is true exactly when the
\* category is network, process or external; and to_error_context() reports
\* the code, the category, the retryable flag and the status code that the
\* accessors return.
C33_ErrorClassification ==
    LET called(a) == answers[a] # <<>>
        ans(a) == answers[a][1]
    IN  /\ called("category") => ans("category") \in ErrorCategories
        /\ called("http_status") => ans("http_status") \in HttpStatuses
        /\ (called("is_retryable") /\ called("category")) =>
               (ans("is_retryable") <=>
                    ans("category") \in {"Network", "Process", "External"})
        /\ called("to_error_context") =>
               /\ called("error_code") =>
                      ans("to_error_context").code = ans("error_code")
               /\ called("category") =>
                      ans("to_error_context").category = ans("category")
               /\ called("is_retryable") =>
                      ans("to_error_context").retryable = ans("is_retryable")
               /\ called("http_status") =>
                      ans("to_error_context").http_status =
                          HttpStatus_code(ans("http_status"))
               /\ ans("to_error_context").retryable <=>
                      ans("to_error_context").category
                          \in {"Network", "Process", "External"}

\* A process error whose accessors have all been called: it is retryable, and
\* so says its context.
C33_Witness ==
    /\ err = "Process"
    /\ \A a \in Accessors : answers[a] # <<>>
    /\ answers["is_retryable"] = <<TRUE>>
    /\ answers["to_error_context"][1].http_status = 502

\* The n keys used last, as a set.
MostRecent(used, n) ==
    {used[i] : i \in {j \in DOMAIN used : j > Len(used) - n}}

\* C40: an LruCache of capacity c holds at most c entries, and they are the
\* keys used most recently (by a put or by a get that found the key); a put
\* of a new key into a full cache removes exactly the least recently used
\* key, and a put of a key the cache holds removes nothing.
C40_LruKeepsMostRecent ==
    /\ Cardinality(DOMAIN cache.map) <= cache.capacity
    /\ DOMAIN cache.map = MostRecent(recent, cache.capacity)
    /\ (lop.op = "put" /\ lop.present) => evicted = {}
    /\ (lop.op = "put" /\ ~lop.present /\ lop.full /\ lop.lru # <<>>) =>
           evicted = {lop.lru[1]}

\* C39: query(filter) returns exactly the skills that are in the collection
\* and whose tags match the filter, whether the result comes from the query
\* cache or from a fresh evaluation.
C39_QueryReturnsCurrentMatches ==
    found.asked =>
        [i \in DOMAIN found.indices |-> skills[found.indices[i] + 1]] =
            SelectSeq(skills, LAMBDA s : TagFilter_matches(found.filter, s.tags))

====
